---------------------------- MODULE Spec2Model ----------------------------
(***************************************************************************)
(* Data-analyst agent of the Rio de Janeiro 1746 call-centre data set.     *)
(*                                                                         *)
(* The repository holds two implementations of every component:            *)
(*   "agent" : the monolith src/agent.py (LangGraph nodes as methods of    *)
(*             DataAnalystAgent) with src/initialize_embeddings.py and     *)
(*             src/category_tools.py;                                      *)
(*   "nodes" : the modular layout src/src/nodes/*.py, src/src/utils/       *)
(*             initialize_embeddings.py and src/src/tools/.                *)
(* Both are modelled; impl (question pipeline) and bImpl (index        *)
(* builder) say which one a behaviour runs.                                *)
(*                                                                         *)
(* Texts are sequences of tokens.  A token is an atomic piece of text      *)
(* (a marker such as "SQL:", a keyword, one blank, a code fence); the      *)
(* string operations of the source (strip, split, in, startswith,          *)
(* slicing) are modelled on token sequences.                               *)
(***************************************************************************)
EXTENDS Integers, Sequences, FiniteSets, TLC

VARIABLES
    impl,      \* which implementation of the pipeline runs
    st,        \* the AgentState dict threaded through the graph
    pc,        \* graph position: the node to run next, "END", or "raised"
    visited,   \* nodes entered so far in this run, in order
    bq,        \* data-execution collaborator: [calls, outcome]
    gen,       \* inputs met by the last sql_generator run (external replies)
    frWriter,  \* nodes that wrote final_response, in order
    bImpl,     \* which implementation of the index builder runs
    values,    \* the UniqueValueSet extracted for the column under rebuild
    store,     \* the Vector Store's collection of the column's name
    prior0,    \* that collection as it was when the rebuild began
    bpc,       \* position of the rebuilding (main) thread
    work,      \* per batch index: the worker's progress on that batch
    collected, \* batch indexes in the order as_completed handed them over
    assembled, \* what the main thread has assembled: [texts, embeddings]
    adds,      \* the collection.add calls made: who made each, in order
    cls,       \* replies the router got from its classification calls, in order
    genLog,    \* external calls made by the last sql_generator run, in order
    search,    \* one call of a resolver tool: CategorySearchTools._search_similar
    prompt,    \* the prompt response_synthesizer last built for the collaborator
    cols,      \* initialize_all_collections: the loop over the configured columns
    client,    \* one call of OpenAIClient.create_embeddings
    boot       \* construction of DataAnalystAgent: its steps and the environment

pipeVars == <<impl, st, pc, visited, bq, gen, frWriter>>
buildVars == <<bImpl, values, store, prior0, bpc, work, collected, assembled, adds>>
sideVars == <<cols, client, boot>>
auxVars == <<cls, genLog, search, prompt, sideVars>>

-----------------------------------------------------------------------------
(* Tokens and text operations                                              *)

SP == " "
NL == "NL"
FENCE == "FENCE"             \* the code-fence marker: three backquotes
None == <<"<None>">>          \* Python None for a text / list field
EmptyText == <<>>

IsWs(t) == t \in {SP, NL}

RECURSIVE LStrip(_)
LStrip(s) == IF s # <<>> /\ IsWs(Head(s)) THEN LStrip(Tail(s)) ELSE s

RECURSIVE RStrip(_)
RStrip(s) ==
    IF s # <<>> /\ IsWs(s[Len(s)]) THEN RStrip(SubSeq(s, 1, Len(s) - 1)) ELSE s

\* str.strip()
Strip(s) == RStrip(LStrip(s))

\* str.upper() / str.lower() on the tokens whose case the code looks at
UpperTok(t) ==
    CASE t = "sql" -> "SQL"
      [] t = "sql:" -> "SQL:"
      [] t = "select" -> "SELECT"
      [] t = "Data_Query" -> "DATA_QUERY"
      [] t = "Iluminacao" -> "ILUMINACAO"
      [] OTHER -> t

LowerTok(t) ==
    CASE t = "Data_Query" -> "data_query"
      [] t = "Iluminacao" -> "iluminacao"
      [] t = "SQL:" -> "sql:"
      [] t = "SELECT" -> "select"
      [] OTHER -> t

Upper(s) == [i \in 1..Len(s) |-> UpperTok(s[i])]
Lower(s) == [i \in 1..Len(s) |-> LowerTok(s[i])]

\* s.startswith(p), s.endswith(p)
StartsWith(s, p) == Len(s) >= Len(p) /\ SubSeq(s, 1, Len(p)) = p
EndsWith(s, p) == Len(s) >= Len(p) /\ SubSeq(s, Len(s) - Len(p) + 1, Len(s)) = p

\* s.find(p): the first index at which p occurs in s, 0 when it does not
Find(s, p) ==
    LET hits == {i \in 1..(Len(s) - Len(p) + 1) : SubSeq(s, i, i + Len(p) - 1) = p}
    IN IF hits = {} THEN 0 ELSE CHOOSE i \in hits : \A j \in hits : i <= j

\* p in s
Contains(s, p) == Find(s, p) # 0


\* the text of s after its first n tokens (s[n:]) and without its last n (s[:-n])
DropFirst(s, n) == SubSeq(s, n + 1, Len(s))
DropLast(s, n) == SubSeq(s, 1, Len(s) - n)

\* s.split(sep)[1] for a one-token separator that occurs in s: the text between
\* the first occurrence of sep and the next one (or the end of s)
SecondPart(s, sep) ==
    LET rest == DropFirst(s, Find(s, <<sep>>))
        nxt == Find(rest, <<sep>>)
    IN IF nxt = 0 THEN rest ELSE SubSeq(rest, 1, nxt - 1)

\* s.split('\n')
RECURSIVE SplitLines(_)
SplitLines(s) ==
    LET i == Find(s, <<NL>>)
    IN IF i = 0 THEN <<s>>
       ELSE <<SubSeq(s, 1, i - 1)>> \o SplitLines(DropFirst(s, i))

\* '\n'.join(lines)
RECURSIVE JoinLines(_)
JoinLines(lines) ==
    IF lines = <<>> THEN <<>>
    ELSE IF Len(lines) = 1 THEN lines[1]
    ELSE lines[1] \o <<NL>> \o JoinLines(Tail(lines))

-----------------------------------------------------------------------------
(* Questions, the Pattern Fallback Table and the validity check            *)
(* (src/agent.py, sql_generator_node)                                      *)

\* The template queries; T_* stands for the body of the template.  The
\* triple-quoted templates begin and end with a line break and indentation.
TemplateIluminacao == <<NL, SP, "SELECT", SP, "T_ILUMINACAO", NL, SP>>
TemplateBuraco == <<NL, SP, "SELECT", SP, "T_BURACO", NL, SP>>
TemplateFiscalizacao == <<NL, SP, "SELECT", SP, "T_FISCALIZACAO", NL, SP>>
GenericMessageQuery == <<"SELECT", SP, "MSG_NAO_FOI_POSSIVEL">>

\* the same chain with the "buraco" test placed first
FallbackSqlBuracoFirst(question) ==
    LET q == Lower(question)
    IN IF Contains(q, <<"buraco">>) THEN TemplateBuraco
       ELSE IF Contains(q, <<"iluminacao">>) THEN TemplateIluminacao
       ELSE IF Contains(q, <<"fiscalizacao">>) /\ Contains(q, <<"estacionamento">>)
            THEN TemplateFiscalizacao
       ELSE GenericMessageQuery

\* if / elif / elif / else on question.lower()
FallbackSql(question) ==
    LET q == Lower(question)
    IN IF Contains(q, <<"iluminacao">>) THEN TemplateIluminacao
       ELSE IF Contains(q, <<"buraco">>) THEN TemplateBuraco
       ELSE IF Contains(q, <<"fiscalizacao">>) /\ Contains(q, <<"estacionamento">>)
            THEN TemplateFiscalizacao
       ELSE GenericMessageQuery

\* not sql_query or sql_query.strip() == "" or sql_query.strip() == "[]"
\*   or "SELECT NULL" in sql_query.upper()
IsInvalidSql(sql) ==
    \/ sql = <<>>
    \/ Strip(sql) = <<>>
    \/ Strip(sql) = <<"[]">>
    \/ Contains(Upper(sql), <<"SELECT", SP, "NULL">>)

\* if "SQL:" in full_response: sql_query = full_response.split("SQL:")[1].strip()
\* else: sql_query = full_response
ExtractAgent(full) ==
    IF Contains(full, <<"SQL:">>) THEN Strip(SecondPart(full, "SQL:")) ELSE full

\* strip; drop a leading "```sql"; drop a trailing "```"; strip
TrimFences(sql) ==
    LET a == Strip(sql)
        b == IF StartsWith(a, <<FENCE, "sql">>) THEN DropFirst(a, 2) ELSE a
        c == IF EndsWith(b, <<FENCE>>) THEN DropLast(b, 1) ELSE b
    IN Strip(c)

\* validation, fallback and trimming as sql_generator_node applies them
StoredSqlAgent(question, full) ==
    LET sql0 == ExtractAgent(full)
        sql1 == IF IsInvalidSql(sql0) THEN FallbackSql(question) ELSE sql0
    IN TrimFences(sql1)

-----------------------------------------------------------------------------
(* extract_sql_from_content (src/src/nodes/sql_generator.py)               *)

StopMarkers == <<"REASONING:", "EXPLANATION:", "NOTE:">>

\* line.strip().upper().startswith(marker)
LineStartsWith(line, markers) ==
    LET l == Upper(Strip(line)) IN l # <<>> /\ l[1] \in markers

\* The for loop over the lines; acc = [capturing, sql_lines].
RECURSIVE ScanLines(_, _)
ScanLines(lines, acc) ==
    IF lines = <<>> THEN acc.sql_lines
    ELSE LET line == Head(lines) IN
         IF LineStartsWith(line, {"SQL:"})
         THEN LET rest == Strip(Tail(LStrip(line)))   \* line.split(':', 1)[1].strip()
              IN ScanLines(Tail(lines),
                     [capturing |-> TRUE,
                      sql_lines |-> IF rest # <<>> THEN Append(acc.sql_lines, rest)
                                    ELSE acc.sql_lines])
         ELSE IF acc.capturing /\ Strip(line) # <<>>
         THEN IF LineStartsWith(line, {StopMarkers[1], StopMarkers[2], StopMarkers[3]})
              THEN acc.sql_lines                                   \* break
              ELSE ScanLines(Tail(lines), [acc EXCEPT !.sql_lines = Append(@, line)])
         ELSE IF acc.capturing
         THEN ScanLines(Tail(lines), [acc EXCEPT !.sql_lines = Append(@, line)])
         ELSE ScanLines(Tail(lines), acc)

\* for stop_word in [...]: if stop_word in sql_part.upper(): cut at its first place
RECURSIVE CutAtStopWords(_, _)
CutAtStopWords(part, k) ==
    IF k > Len(StopMarkers) THEN part
    ELSE LET i == Find(Upper(part), <<StopMarkers[k]>>)
         IN CutAtStopWords(IF i = 0 THEN part ELSE SubSeq(part, 1, i - 1), k + 1)

extract_sql_from_content(content) ==
    IF content = None \/ content = <<>> THEN None
    ELSE LET sql_lines == ScanLines(SplitLines(content),
                                    [capturing |-> FALSE, sql_lines |-> <<>>])
             start_idx == Find(Upper(content), <<"SELECT">>)
         IN IF sql_lines # <<>> THEN Strip(JoinLines(sql_lines))
            ELSE IF start_idx # 0
                 THEN Strip(CutAtStopWords(DropFirst(content, start_idx - 1), 1))
            ELSE Strip(content)


-----------------------------------------------------------------------------
(* The AgentState and the five nodes                                       *)

Msg(role, content) == [role |-> role, content |-> content]

NumStr == <<"1", "2", "3", "4", "5", "6", "7", "8", "9", "10", "11", "12", "13">>
Num(n) == IF n = 0 THEN "0" ELSE NumStr[n]
RowNames == <<"r1", "r2", "r3", "r4", "r5", "r6", "r7", "r8", "r9", "r10", "r11",
              "r12", "r13">>
Rows(n) == [i \in 1..n |-> RowNames[i]]

\* DataAnalystAgent.run: the initial state handed to graph.invoke.  The keys
\* route and tool_context are not set by run; the nodes of src/src/nodes add them.
InitialState(question) ==
    [question |-> question, intent |-> "None", route |-> "None",
     sql_query |-> None, data_result |-> None, final_response |-> <<>>,
     error |-> None, tool_context |-> None,
     messages |-> <<Msg("user", question)>>]

Returned(s) == [raised |-> FALSE, st |-> s]
Raised(s) == [raised |-> TRUE, st |-> s]

\* ---- router ----
\* r = [outcome, content]: the reply of the classification call
RouterAgent(s, r) ==
    IF r.outcome # "ok" THEN Raised(s)            \* llm.invoke raises
    ELSE LET reply == Lower(Strip(r.content))
             intent == IF reply \in {<<"data_query">>, <<"conversational">>}
                       THEN reply[1] ELSE "conversational"
         IN Returned([s EXCEPT !.intent = intent,
                        !.messages = Append(@, Msg("system",
                                        <<"Intent classificado como:", intent>>))])

RouterNodes(s, r) ==
    IF r.outcome = "ok" /\ Contains(Lower(Strip(r.content)), <<"data_query">>)
    THEN Returned([s EXCEPT !.route = "data_query"])
    ELSE Returned([s EXCEPT !.route = "conversational"])

\* ---- sql_generator ----
\* g = [schema, p1, calls, c1, p2, c2]: schema files readable or not, outcome and
\* content of the first generation call, the tool calls it asks for with the
\* outcome of each resolver, outcome and content of the second generation call.
ToolNames == {"get_nome_unidade_organizacional", "get_id_unidade_organizacional_mae",
              "get_tipo", "get_subtipo"}

ToolText(call) ==
    IF call.res = "found" THEN "similares" ELSE "nao encontrado"

\* agent.py: one entry per call whose name is one of CATEGORY_TOOLS
RECURSIVE ToolResultsAgent(_)
ToolResultsAgent(calls) ==
    IF calls = <<>> THEN <<>>
    ELSE LET c == Head(calls)
             entry == IF c.name \notin ToolNames THEN <<>>
                      ELSE IF c.res = "raise" THEN <<<<"Erro em", c.name, "EXC">>>>
                      ELSE <<<<c.name, c.query, ToolText(c)>>>>
         IN entry \o ToolResultsAgent(Tail(calls))

SqlGeneratorAgent(s, g) ==
    IF g.schema # "ok" \/ g.p1 # "ok" \/ (g.calls # <<>> /\ g.p2 # "ok")
    THEN Raised(s)                  \* open() or chain.invoke raises
    ELSE LET full_response == IF g.calls # <<>> THEN g.c2 ELSE g.c1
             sql_query == StoredSqlAgent(s.question, full_response)
         IN Returned([s EXCEPT !.sql_query = sql_query,
                        !.messages = Append(@, Msg("system",
                                               <<"SQL gerado:">> \o sql_query))])

\* nodes: one entry per call; an unknown name gives "Tool nao encontrada"
ToolResultsNodesReversed(calls) ==
    [i \in 1..Len(calls) |->
        LET c == calls[Len(calls) + 1 - i]
        IN IF c.name \in ToolNames THEN <<c.name, c.query, ToolText(c)>>
           ELSE <<c.name, c.query, "Tool nao encontrada">>]

ToolResultsNodes(calls) ==
    [i \in 1..Len(calls) |->
        IF calls[i].name \in ToolNames
        THEN <<calls[i].name, calls[i].query, ToolText(calls[i])>>
        ELSE <<calls[i].name, calls[i].query, "Tool nao encontrada">>]

SqlGeneratorNodes(s, g) ==
    LET failed(msg) == Returned([s EXCEPT !.sql_query = None, !.error = msg])
        anyRaise == \E i \in 1..Len(g.calls) :
                        g.calls[i].name \in ToolNames /\ g.calls[i].res = "raise"
        sql_content == IF g.calls # <<>> /\ g.p2 = "ok" THEN g.c2 ELSE g.c1
        tool_context == IF g.calls # <<>> THEN ToolResultsNodes(g.calls) ELSE <<>>
    IN IF g.p1 = "exception" THEN failed(<<"Erro ao gerar SQL:", "EXC">>)
       ELSE IF g.p1 = "http_error" THEN failed(<<"Erro na API:", "500">>)
       ELSE IF g.calls # <<>> /\ (anyRaise \/ g.p2 = "exception")
            THEN failed(<<"Erro ao gerar SQL:", "EXC">>)
       ELSE Returned([s EXCEPT
                !.sql_query = extract_sql_from_content(sql_content),
                !.tool_context = tool_context,
                !.messages = Append(@, Msg("assistant", sql_content))])

\* ---- the external calls of one sql_generator run, in the order made ----
\* a generation call (with or without the tools offered) or a resolver call
\* with the resolution context its prompt holds
GenCall(tools, context) ==
    [ev |-> "generate", name |-> tools, query |-> "", context |-> context]
ResolveCall(c) == [ev |-> "resolve", name |-> c.name, query |-> c.query, context |-> <<>>]

\* agent.py: for tool in CATEGORY_TOOLS: if tool.name == tool_name: tool.func(**args)
RECURSIVE ResolveCallsAgent(_)
ResolveCallsAgent(calls) ==
    IF calls = <<>> THEN <<>>
    ELSE (IF Head(calls).name \in ToolNames THEN <<ResolveCall(Head(calls))>> ELSE <<>>)
             \o ResolveCallsAgent(Tail(calls))

GenLogAgentTwice(g) ==
    IF g.schema # "ok" THEN <<>>
    ELSE IF g.p1 # "ok" THEN <<GenCall("tools", <<>>)>>
    ELSE <<GenCall("tools", <<>>)>> \o ResolveCallsAgent(g.calls)
            \o <<GenCall("no_tools", ToolResultsAgent(g.calls))>>

GenLogAgent(g) ==
    IF g.schema # "ok" THEN <<>>
    ELSE IF g.p1 # "ok" \/ g.calls = <<>> THEN <<GenCall("tools", <<>>)>>
    ELSE <<GenCall("tools", <<>>)>> \o ResolveCallsAgent(g.calls)
            \o <<GenCall("no_tools", ToolResultsAgent(g.calls))>>

\* nodes: the if / elif chain on function_name; an exception in a tool call
\* leaves the loop and the try block
RECURSIVE ResolveCallsNodes(_)
ResolveCallsNodes(calls) ==
    IF calls = <<>> THEN [log |-> <<>>, raised |-> FALSE]
    ELSE LET c == Head(calls) IN
         IF c.name \notin ToolNames THEN ResolveCallsNodes(Tail(calls))
         ELSE IF c.res = "raise" THEN [log |-> <<ResolveCall(c)>>, raised |-> TRUE]
         ELSE LET r == ResolveCallsNodes(Tail(calls))
              IN [r EXCEPT !.log = <<ResolveCall(c)>> \o @]

GenLogNodes(g) ==
    IF g.p1 # "ok" \/ g.calls = <<>> THEN <<GenCall("tools", <<>>)>>
    ELSE LET r == ResolveCallsNodes(g.calls)
         IN <<GenCall("tools", <<>>)>> \o r.log
                \o (IF r.raised THEN <<>>
                    ELSE <<GenCall("no_tools", ToolResultsNodes(g.calls))>>)

\* ---- sql_executor ----
\* x = [outcome, n]: the collaborator returns n rows ("rows"), throws ("throws"),
\* or the credentials are not configured ("no_creds", read per call by the nodes)
\* a check that does not strip the query
EmptyQueryNoStrip(sql) == sql = None \/ sql = <<>>

\* if not sql_query or sql_query.strip() == "":
EmptyQuery(sql) == sql = None \/ sql = <<>> \/ Strip(sql) = <<>>

BqCalled(sql_query, x) == ~EmptyQuery(sql_query) /\ x.outcome # "no_creds"

\* agent.py: the try/except around the query is commented out (lines 461-482);
\* the client was built in __init__, so credentials are not read here
SqlExecutorAgent(s, x) ==
    IF EmptyQuery(s.sql_query)
    THEN Returned([s EXCEPT !.error = <<"SQL query vazia ou invalida">>,
                           !.data_result = <<>>])
    ELSE IF x.outcome = "throws" THEN Raised(s)
    ELSE Returned([s EXCEPT !.data_result = Rows(x.n),
             !.messages = Append(@, Msg("system",
                             <<"Consulta executada com sucesso.", Num(x.n)>>))])

SqlExecutorNodes(s, x) ==
    IF EmptyQuery(s.sql_query)
    THEN Returned([s EXCEPT !.error = <<"SQL query vazia ou invalida">>,
                           !.data_result = <<>>])
    ELSE IF x.outcome \in {"throws", "no_creds"}
    THEN LET error_msg == <<"Erro ao executar SQL:",
                            IF x.outcome = "throws" THEN "BQ_ERROR" ELSE "NO_CREDENTIALS">>
         IN Returned([s EXCEPT !.error = error_msg, !.data_result = <<>>,
                         !.messages = Append(@, Msg("system", error_msg))])
    ELSE Returned([s EXCEPT !.data_result = Rows(x.n),
             !.messages = Append(@, Msg("system",
                             <<"Consulta executada com sucesso.", Num(x.n)>>))])

\* ---- response_synthesizer and conversational_responder ----
\* if error: (truthiness of state["error"])
ErrorPresent(s) == s.error # None /\ s.error # <<>>

\* data_summary: the line count, the rows if there are at most 10 of them, else
\* the first 10 and the count of the others; "Nenhum resultado encontrado."
\* when there is no row
DataSummaryEleven(rows) ==
    LET N == Len(rows) IN
    IF rows = None \/ N = 0 THEN <<"Nenhum resultado encontrado.">>
    ELSE <<"Dados encontrados", Num(N)>>
            \o (IF N <= 11 THEN rows ELSE SubSeq(rows, 1, 11) \o <<"e mais", Num(N - 11)>>)

DataSummary(rows) ==
    LET N == Len(rows) IN
    IF rows = None \/ N = 0 THEN <<"Nenhum resultado encontrado.">>
    ELSE <<"Dados encontrados", Num(N)>>
            \o (IF N <= 10 THEN rows ELSE SubSeq(rows, 1, 10) \o <<"e mais", Num(N - 10)>>)

\* the prompt: the apology request with the error, or the question with the
\* summary of the data
SynthesizerPrompt(s) ==
    IF ErrorPresent(s)
    THEN [branch |-> "apology", question |-> s.question, error |-> s.error, summary |-> <<>>]
    ELSE [branch |-> "data", question |-> s.question, error |-> <<>>,
          summary |-> DataSummary(s.data_result)]

NoPrompt == [branch |-> "none", question |-> <<>>, error |-> <<>>, summary |-> <<>>]

\* y = [outcome, content]: the reply of the language collaborator
WithFinal(s, final_response) ==
    [s EXCEPT !.final_response = final_response,
              !.messages = Append(@, Msg("assistant", final_response))]

ResponseSynthesizerAgent(s, y) ==
    IF y.outcome # "ok" THEN Raised(s) ELSE Returned(WithFinal(s, Strip(y.content)))

ResponseSynthesizerNodes(s, y) ==
    Returned(WithFinal(s,
        IF y.outcome = "ok" THEN Strip(y.content)
        ELSE IF y.outcome = "http_error" THEN <<"Erro ao gerar resposta:", "500">>
        ELSE <<"Erro ao sintetizar resposta:", "EXC">>))

ConversationalResponderAgent(s, y) ==
    IF y.outcome # "ok" THEN Raised(s) ELSE Returned(WithFinal(s, Strip(y.content)))

ConversationalResponderNodes(s, y) ==
    Returned(WithFinal(s,
        IF y.outcome = "ok" THEN Strip(y.content)
        ELSE IF y.outcome = "http_error" THEN <<"Ola! Sou o assistente. Como posso ajuda-lo?">>
        ELSE <<"Ola! Sou o assistente. Como posso ajuda-lo com informacoes?">>))

\* ---- the graph (DataAnalystAgent._build_graph) ----
\* The conditional edge reads the router's classification: state["intent"] in
\* agent.py; the router of src/src/nodes returns it under the key "route".
route_intentSwapped(i, s) ==
    IF (IF i = "agent" THEN s.intent ELSE s.route) = "data_query"
    THEN "conversational" ELSE "data_query"

route_intent(i, s) == IF i = "agent" THEN s.intent ELSE s.route

\* a graph whose sql_generator has its edge to response_synthesizer
NextNodeSkipExecutor(i, node, s) ==
    CASE node = "router" ->
            IF route_intent(i, s) = "data_query" THEN "sql_generator"
            ELSE "conversational_responder"
      [] node = "sql_generator" -> "response_synthesizer"
      [] node = "sql_executor" -> "response_synthesizer"
      [] node = "response_synthesizer" -> "END"
      [] node = "conversational_responder" -> "END"

NextNode(i, node, s) ==
    CASE node = "router" ->
            IF route_intent(i, s) = "data_query" THEN "sql_generator"
            ELSE "conversational_responder"
      [] node = "sql_generator" -> "sql_executor"
      [] node = "sql_executor" -> "response_synthesizer"
      [] node = "response_synthesizer" -> "END"
      [] node = "conversational_responder" -> "END"


-----------------------------------------------------------------------------
(* Inputs: questions and the replies of the external collaborators         *)

MaxRows == 2

Questions ==
    {<<>>, <<"ola">>, <<"iluminacao">>, <<"Iluminacao", SP, "buraco">>, <<"buraco">>,
     <<"fiscalizacao">>, <<"fiscalizacao", SP, "estacionamento">>}

Reply(outcome, content) == [outcome |-> outcome, content |-> content]

RouterContents ==
    {<<"data_query">>, <<"conversational">>, <<SP, "Data_Query", NL>>,
     <<"data_query", SP, "conversational">>, <<"other">>, <<>>}

RouterReplies ==
    {Reply("ok", c) : c \in RouterContents}
        \cup {Reply("http_error", <<>>), Reply("exception", <<>>)}

LlmReplies ==
    {Reply("ok", <<"answer">>), Reply("ok", <<SP>>), Reply("http_error", <<>>),
     Reply("exception", <<>>)}

GenInput(schema, p1, calls, c1, p2, c2) ==
    [schema |-> schema, p1 |-> p1, calls |-> calls, c1 |-> c1, p2 |-> p2, c2 |-> c2]

NoGen == GenInput("ok", "none", <<>>, <<>>, "none", <<>>)

\* a tool call of the first generation reply: the function it names, its
\* "query" argument, and what the resolver does when it is called
CallQ(name, res, query) == [name |-> name, res |-> res, query |-> query]

Call(name, res) == CallQ(name, res, "termo")

GoodSql == <<"REASONING:", SP, "r", NL, "SQL:", SP, "SELECT", SP, "tbl">>

PipelineContents == {GoodSql, <<"[]">>, <<>>, <<FENCE, "sql", NL, "SELECT", NL, FENCE>>}

PipelineCalls ==
    {<<Call("get_tipo", "empty")>>, <<Call("get_subtipo", "found")>>,
     <<Call("get_tipo", "raise")>>}

\* the generation replies met in a run of the whole pipeline
PipelineGenInputs ==
    {GenInput("ok", "ok", <<>>, c, "none", <<>>) : c \in PipelineContents}
    \cup {GenInput("ok", "ok", k, <<>>, "ok", c) : k \in PipelineCalls, c \in PipelineContents}
    \cup {GenInput("ok", "ok", <<Call("get_tipo", "empty")>>, <<>>, p2, <<>>) :
              p2 \in {"http_error", "exception"}}
    \cup {GenInput("ok", p1, <<>>, <<>>, "none", <<>>) : p1 \in {"http_error", "exception"}}
    \cup {GenInput("missing", "ok", <<>>, GoodSql, "none", <<>>)}

ExecOutcomes(i) ==
    {[outcome |-> "rows", n |-> n] : n \in 0..MaxRows}
        \cup {[outcome |-> "throws", n |-> 0]}
        \cup (IF i = "nodes" THEN {[outcome |-> "no_creds", n |-> 0]} ELSE {})

\* no rebuild-all loop and no embedding call are running; the agent is
\* constructed
ColsIdle == [i |-> 0, log |-> <<>>, over |-> FALSE, raised |-> FALSE]
ClientIdle == [pc |-> "idle", texts |-> <<>>, requests |-> <<>>, reply |-> "none",
               result |-> <<>>, raised |-> FALSE]
BootReady == [stage |-> "ready", openai |-> "set", google |-> "set", failed |-> FALSE]

SideIdle == prompt = NoPrompt /\ cols = ColsIdle /\ client = ClientIdle /\ boot = BootReady

\* no resolver tool is being called
ResolverIdle ==
    [pc |-> "idle", tool |-> "none", coll |-> "none", n_results |-> 0,
     embedCalls |-> 0, queryCalls |-> 0, failed |-> "none",
     neighbours |-> <<>>, result |-> <<>>, text |-> "none"]

-----------------------------------------------------------------------------
(* The question pipeline: DataAnalystAgent.run drives the graph, one node   *)
(* at a time                                                               *)

IdleState == [InitialState(<<>>) EXCEPT !.messages = <<>>]

InitPipeline ==
    /\ impl \in {"agent", "nodes"}
    /\ st = IdleState
    /\ pc = "idle"
    /\ visited = <<>>
    /\ bq = [calls |-> 0, outcome |-> "none"]
    /\ gen = NoGen
    /\ frWriter = <<>>
    /\ cls = <<>>
    /\ genLog = <<>>
    /\ search = ResolverIdle
    /\ SideIdle

\* what every node step does with the node's result: an exception leaves
\* graph.invoke, a returned state follows the node's outgoing edge
Advance(node, result) ==
    /\ st' = result.st
    /\ pc' = IF result.raised THEN "raised" ELSE NextNode(impl, node, result.st)
    /\ visited' = Append(visited, node)
    /\ frWriter' = IF result.st.final_response # st.final_response
                      \/ (~result.raised /\ node \in {"response_synthesizer",
                                                      "conversational_responder"})
                   THEN Append(frWriter, node) ELSE frWriter
    /\ impl' = impl

Run ==
    /\ pc = "idle"
    /\ \E q \in Questions : st' = InitialState(q)
    /\ pc' = "router"
    /\ UNCHANGED <<impl, visited, bq, gen, frWriter, buildVars, auxVars>>

RouterStep ==
    /\ pc = "router"
    /\ \E r \in RouterReplies :
          /\ Advance("router", IF impl = "agent" THEN RouterAgent(st, r)
                               ELSE RouterNodes(st, r))
          /\ cls' = Append(cls, r)
    /\ UNCHANGED <<bq, gen, buildVars, genLog, search, prompt, sideVars>>

SqlGeneratorStep(Inputs) ==
    /\ pc = "sql_generator"
    /\ \E g \in Inputs :
          /\ Advance("sql_generator", IF impl = "agent" THEN SqlGeneratorAgent(st, g)
                                      ELSE SqlGeneratorNodes(st, g))
          /\ gen' = g
          /\ genLog' = IF impl = "agent" THEN GenLogAgent(g) ELSE GenLogNodes(g)
    /\ UNCHANGED <<bq, buildVars, cls, search, prompt, sideVars>>

SqlExecutorStep ==
    /\ pc = "sql_executor"
    /\ \E x \in ExecOutcomes(impl) :
          /\ Advance("sql_executor", IF impl = "agent" THEN SqlExecutorAgent(st, x)
                                     ELSE SqlExecutorNodes(st, x))
          /\ bq' = IF BqCalled(st.sql_query, x)
                   THEN [calls |-> bq.calls + 1, outcome |-> x.outcome] ELSE bq
    /\ UNCHANGED <<gen, buildVars, auxVars>>

ResponseSynthesizerStep ==
    /\ pc = "response_synthesizer"
    /\ \E y \in LlmReplies :
          Advance("response_synthesizer",
                  IF impl = "agent" THEN ResponseSynthesizerAgent(st, y)
                  ELSE ResponseSynthesizerNodes(st, y))
    /\ prompt' = SynthesizerPrompt(st)
    /\ UNCHANGED <<bq, gen, buildVars, cls, genLog, search, sideVars>>

ConversationalResponderStep ==
    /\ pc = "conversational_responder"
    /\ \E y \in LlmReplies :
          Advance("conversational_responder",
                  IF impl = "agent" THEN ConversationalResponderAgent(st, y)
                  ELSE ConversationalResponderNodes(st, y))
    /\ UNCHANGED <<bq, gen, buildVars, auxVars>>

PipelineGenStep == SqlGeneratorStep(PipelineGenInputs)

NextPipeline ==
    \/ Run
    \/ RouterStep
    \/ PipelineGenStep
    \/ SqlExecutorStep
    \/ ResponseSynthesizerStep
    \/ ConversationalResponderStep

vars == <<pipeVars, buildVars, auxVars>>

\* no rebuild is going on while questions are answered
BuildIdle ==
    /\ bImpl = "agent"
    /\ values = <<>>
    /\ store = [exists |-> FALSE, entries |-> <<>>]
    /\ prior0 = store
    /\ bpc = "idle"
    /\ work = <<>>
    /\ collected = <<>>
    /\ assembled = [texts |-> <<>>, embeddings |-> <<>>]
    /\ adds = <<>>

Init == InitPipeline /\ BuildIdle

Next == NextPipeline

Spec == Init /\ [][Next]_vars

-----------------------------------------------------------------------------
(* Claims about the question pipeline                                      *)

Finished == pc \in {"END", "raised"}

\* the classification the router left in the state
Classified == IF impl = "agent" THEN st.intent ELSE st.route

Last(seq) == seq[Len(seq)]

\* C1: every run on a question classified data_query in which the query was
\* handed to the data-execution collaborator ends at END, its last node being
\* response_synthesizer, which wrote final_response -- also when the
\* collaborator threw.
C1_DataQueryEndsAtSynthesizer ==
    (Classified = "data_query" /\ Finished /\ bq.calls > 0)
        => /\ pc = "END"
           /\ Last(visited) = "response_synthesizer"
           /\ frWriter = <<"response_synthesizer">>

\* C2: when the collaborator threw on a non-empty query, sql_executor did not
\* raise: it returned with a non-empty error, data_result = [] and the failure
\* appended to the message log.
C2_ExecutionFailureCaptured ==
    (bq.outcome = "throws" /\ Last(visited) = "sql_executor")
        => /\ pc = "response_synthesizer"
           /\ st.error # None /\ st.error # <<>>
           /\ st.data_result = <<>>
           /\ Last(st.messages) = Msg("system", st.error)

\* C3: on a question classified conversational the run goes router ->
\* conversational_responder -> END: sql_generator and sql_executor are never
\* entered and the data-execution collaborator is never invoked.
C3_ConversationalBypassesData ==
    (pc # "idle" /\ visited # <<>> /\ Classified = "conversational")
        => /\ \A k \in 1..Len(visited) :
                  visited[k] \notin {"sql_generator", "sql_executor", "response_synthesizer"}
           /\ bq.calls = 0
           /\ pc \in {"conversational_responder", "END", "raised"}
           /\ (pc = "END" => visited = <<"router", "conversational_responder">>)

C3_Witness ==
    /\ Classified = "conversational"
    /\ pc = "END"
    /\ visited = <<"router", "conversational_responder">>
    /\ st.final_response # <<>>


-----------------------------------------------------------------------------
(* The sql_generator node alone, on every generation reply up to            *)
(* MaxContentLen tokens.  It starts where the router has classified the     *)
(* question as data_query.                                                  *)

MaxContentLen == 3
MaxToolCalls == 2

GenTokens == {"SQL:", "SELECT", "NULL", SP, "[]", FENCE, "sql", "Desculpe"}

TextsOver(tokens, n) == UNION {[1..k -> tokens] : k \in 0..n}

Contents == TextsOver(GenTokens, MaxContentLen)

\* k calls of one resolver, each finding nothing
EmptyCalls(k) == [i \in 1..k |-> Call("get_tipo", "empty")]

MixedCalls ==
    {<<Call("get_subtipo", "found")>>, <<Call("get_tipo", "raise")>>,
     <<Call("get_outro", "empty")>>,
     <<Call("get_tipo", "empty"), Call("get_nome_unidade_organizacional", "found")>>,
     <<CallQ("get_subtipo", "found", "poste"), CallQ("get_tipo", "found", "luz"),
       CallQ("get_subtipo", "empty", "luz")>>,
     <<Call("get_tipo", "found"), Call("get_outro", "found"), Call("get_subtipo", "raise")>>}

GenInputs ==
    {GenInput("ok", "ok", <<>>, c, "none", <<>>) : c \in Contents}
    \cup {GenInput("ok", "ok", EmptyCalls(k), <<>>, "ok", c) :
              k \in 1..MaxToolCalls, c \in Contents}
    \cup {GenInput("ok", "ok", k, <<>>, "ok", c) : k \in MixedCalls, c \in PipelineContents}
    \cup {GenInput("ok", "ok", EmptyCalls(1), c, p2, <<>>) :
              p2 \in {"http_error", "exception"}, c \in PipelineContents}
    \cup {GenInput("ok", p1, <<>>, <<>>, "none", <<>>) : p1 \in {"http_error", "exception"}}
    \cup {GenInput("missing", "ok", <<>>, GoodSql, "none", <<>>)}

\* the state in which the router hands a data_query question to sql_generator
AfterRouter(i, q) ==
    IF i = "agent" THEN RouterAgent(InitialState(q), Reply("ok", <<"data_query">>)).st
    ELSE RouterNodes(InitialState(q), Reply("ok", <<"data_query">>)).st

InitGen ==
    /\ impl \in {"agent", "nodes"}
    /\ \E q \in Questions : st = AfterRouter(impl, q)
    /\ pc = "sql_generator"
    /\ visited = <<"router">>
    /\ bq = [calls |-> 0, outcome |-> "none"]
    /\ gen = NoGen
    /\ frWriter = <<>>
    /\ cls = <<Reply("ok", <<"data_query">>)>>
    /\ genLog = <<>>
    /\ search = ResolverIdle
    /\ SideIdle
    /\ BuildIdle

WideGenStep == SqlGeneratorStep(GenInputs)

NextGen == WideGenStep

SpecGen == InitGen /\ [][NextGen]_vars

\* the generator returned and its result is about to be handed to sql_executor
GeneratorReturned == pc = "sql_executor" /\ Last(visited) = "sql_generator"

\* the reply the query is taken from, and the text extracted from it
GenContent == IF gen.calls # <<>> /\ gen.p2 = "ok" THEN gen.c2 ELSE gen.c1

Extracted ==
    IF impl = "agent" THEN ExtractAgent(GenContent)
    ELSE extract_sql_from_content(GenContent)

AllCallsEmpty ==
    /\ gen.calls # <<>>
    /\ \A k \in 1..Len(gen.calls) :
          gen.calls[k].name \in ToolNames /\ gen.calls[k].res = "empty"

IsApology(sql) == Contains(sql, <<"Desculpe">>)

\* C4: if every resolver call of the generation found nothing, the query text
\* stored in sql_query is not None, empty or blank, is not the placeholder "[]"
\* and is no apology text, whatever the second generation call replied.
C4_UsableQueryAfterEmptyResolution ==
    (GeneratorReturned /\ AllCallsEmpty /\ gen.p2 = "ok")
        => /\ st.sql_query # None
           /\ Strip(st.sql_query) # <<>>
           /\ Strip(st.sql_query) # <<"[]">>
           /\ ~IsApology(st.sql_query)

\* C5: whenever the text extracted from the generation reply is empty, is the
\* placeholder "[]" or holds the inability marker (SELECT NULL), the generator
\* stores the fallback query chosen by the question's keywords instead of it.
C5_InvalidTextReplacedByFallback ==
    (GeneratorReturned /\ (Extracted = None \/ IsInvalidSql(Extracted)))
        => st.sql_query = Strip(FallbackSql(st.question))


-----------------------------------------------------------------------------
(* The Vector Index Builder: the rebuild of one column's collection        *)
(* (CategoryEmbeddingsInitializer.initialize_collection and the workers    *)
(* it starts).  Values are 1, 2, ... in the ORDER BY order of the          *)
(* extraction query; batch k of the model is the source's batch_idx k - 1; *)
(* the id "{collection}_{i}" is the number i.                              *)

MaxValues == 5
BATCH_SIZE == 2                  \* 1000 in the source, scaled down
THREAD_POOL_MAX_WORKERS == 3
max_retries == 3
EMBEDDING_DIM == 3072

Min(a, b) == IF a < b THEN a ELSE b

RECURSIVE Pow2(_)
Pow2(n) == IF n = 0 THEN 1 ELSE 2 * Pow2(n - 1)

\* time.sleep(2 ** attempt)
BackoffLinear(attempt) == 2 * attempt + 1

Backoff(attempt) == Pow2(attempt)

Embedding(text) == [kind |-> "emb", of |-> text, dim |-> EMBEDDING_DIM]
ZeroVector == [kind |-> "zero", of |-> 0, dim |-> EMBEDDING_DIM]

\* for i in range(0, len(values), batch_size): batches.append((i // batch_size,
\*     values[i:i + batch_size]))
Batches(vals) ==
    [k \in 1..((Len(vals) + BATCH_SIZE - 1) \div BATCH_SIZE) |->
        SubSeq(vals, (k - 1) * BATCH_SIZE + 1, Min(k * BATCH_SIZE, Len(vals)))]

\* OpenAIClient.create_embeddings on success: one vector per text, in order
create_embeddings(texts) == [k \in 1..Len(texts) |-> Embedding(texts[k])]

\* what a call of OpenAIClient.create_embeddings that does not raise can
\* return: the vectors of the reply, which the client does not count; a reply
\* may lack the item of the last text
ClientResults(texts) ==
    {create_embeddings(texts), SubSeq(create_embeddings(texts), 1, Len(texts) - 1)}

\* what the worker returns for a batch whose last attempt failed:
\* [[0.0] * 3072] * len(batch) in initialize_embeddings.py, [] in src/utils
FailedBatchResult(i, texts) ==
    IF i = "agent" THEN [k \in 1..Len(texts) |-> ZeroVector] ELSE <<>>

\* attempts a worker makes on one batch: the retry loop exists in src/utils only
MaxAttempts(i) == IF i = "agent" THEN 1 ELSE max_retries

\* chroma_client.create_collection: raises when the name is taken
create_collectionGetOrCreate(s) ==
    [raised |-> FALSE, store |-> IF s.exists THEN s ELSE [exists |-> TRUE, entries |-> <<>>]]

create_collection(s) ==
    IF s.exists THEN [raised |-> TRUE, store |-> s]
    ELSE [raised |-> FALSE, store |-> [exists |-> TRUE, entries |-> <<>>]]

\* ids = [f"{collection_name}_{i}" for i in range(len(texts))]; collection.add(...)
NewEntries(texts, embeddings) ==
    [k \in 1..Len(texts) |->
        [id |-> k - 1, doc |-> texts[k], vec |-> embeddings[k], of |-> "new"]]

PriorValues == <<1, 9>>

PriorStores ==
    {[exists |-> FALSE, entries |-> <<>>],
     [exists |-> TRUE,
      entries |-> [k \in 1..Len(PriorValues) |->
                      [id |-> k - 1, doc |-> PriorValues[k],
                       vec |-> Embedding(PriorValues[k]), of |-> "prior"]]]}

Queued == [status |-> "queued", calls |-> 0, sleeps |-> <<>>, ok |-> FALSE, result |-> <<>>]

RECURSIVE Flatten(_)
Flatten(seqs) == IF seqs = <<>> THEN <<>> ELSE Head(seqs) \o Flatten(Tail(seqs))

InCollected(b) == \E k \in 1..Len(collected) : collected[k] = b

\* a pool that counts only the threads that are not asleep
BusyAwake == {b \in 1..Len(work) : work[b].status \in {"running", "printing"}}

\* the batches a pool thread has taken and not yet returned for
Busy == {b \in 1..Len(work) : work[b].status \in {"running", "sleeping", "printing"}}

\* lock = threading.Lock() of create_embeddings_parallel: held for the print
LockHolders == {b \in 1..Len(work) : work[b].status = "printing"}

PipelineIdle ==
    /\ impl = "agent"
    /\ st = IdleState
    /\ pc = "idle"
    /\ visited = <<>>
    /\ bq = [calls |-> 0, outcome |-> "none"]
    /\ gen = NoGen
    /\ frWriter = <<>>
    /\ cls = <<>>
    /\ genLog = <<>>
    /\ search = ResolverIdle
    /\ SideIdle

InitBuild ==
    /\ bImpl \in {"agent", "nodes"}
    /\ values = <<>>
    /\ store \in PriorStores
    /\ prior0 = store
    /\ bpc = "extract"
    /\ work = <<>>
    /\ collected = <<>>
    /\ assembled = [texts |-> <<>>, embeddings |-> <<>>]
    /\ adds = <<>>
    /\ PipelineIdle

\* a column whose values are never checked for emptiness
AfterExtractionNoCheck(vals) == "delete"

\* if not values: warn and skip; otherwise the rebuild goes on
AfterExtraction(vals) == IF vals = <<>> THEN "skipped" ELSE "delete"

\* extract_unique_values / get_categorical_values, and the empty-set check
ExtractValues ==
    /\ bpc = "extract"
    /\ \/ \E n \in 0..MaxValues :
             /\ values' = [k \in 1..n |-> k]
             /\ bpc' = AfterExtraction([k \in 1..n |-> k])
       \/ values' = values /\ bpc' = "aborted"        \* the extraction query fails
    /\ UNCHANGED <<pipeVars, auxVars, bImpl, store, prior0, work, collected, assembled, adds>>

\* try: delete_collection(name) except: pass
DeletePrior ==
    /\ bpc = "delete"
    /\ \/ store.exists /\ store' = [exists |-> FALSE, entries |-> <<>>]
       \/ store' = store                       \* no such collection, or the delete fails
    /\ bpc' = "create"
    /\ UNCHANGED <<pipeVars, auxVars, bImpl, values, prior0, work, collected, assembled, adds>>

CreateCollection ==
    /\ bpc = "create"
    /\ LET r == create_collection(store)
       IN /\ store' = r.store
          /\ bpc' = IF r.raised THEN "aborted" ELSE "submit"
    /\ UNCHANGED <<pipeVars, auxVars, bImpl, values, prior0, work, collected, assembled, adds>>

\* executor.submit for every batch
SubmitBatches ==
    /\ bpc = "submit"
    /\ work' = [k \in 1..Len(Batches(values)) |-> Queued]
    /\ bpc' = "collect"
    /\ UNCHANGED <<pipeVars, auxVars, bImpl, values, store, prior0, collected, assembled, adds>>

\* a pool thread takes the oldest queued batch
WorkerStart(b) ==
    /\ bpc = "collect"
    /\ work[b].status = "queued"
    /\ \A c \in 1..(b - 1) : work[c].status # "queued"
    /\ Cardinality(Busy) < THREAD_POOL_MAX_WORKERS
    /\ work' = [work EXCEPT ![b].status = "running"]
    /\ UNCHANGED <<pipeVars, auxVars, bImpl, values, store, prior0, bpc, collected, assembled, adds>>

\* one attempt: openai_client.create_embeddings(batch) returns or raises
WorkerCall(b) ==
    /\ bpc = "collect"
    /\ work[b].status = "running"
    /\ LET w == work[b]
           attempt == w.calls
           texts == Batches(values)[b]
       IN \/ /\ bImpl = "agent" => LockHolders = {}
             /\ \E r \in ClientResults(texts) :
                   work' = [work EXCEPT ![b] =
                      [w EXCEPT !.status = IF bImpl = "agent" THEN "printing" ELSE "done",
                                !.calls = @ + 1,
                                !.ok = TRUE,
                                !.result = r]]
          \/ work' = [work EXCEPT ![b] =
                IF attempt < MaxAttempts(bImpl) - 1
                THEN [w EXCEPT !.status = "sleeping", !.calls = @ + 1,
                               !.sleeps = Append(@, Backoff(attempt))]
                ELSE [w EXCEPT !.status = "done", !.calls = @ + 1,
                               !.result = FailedBatchResult(bImpl, texts)]]
    /\ UNCHANGED <<pipeVars, auxVars, bImpl, values, store, prior0, bpc, collected, assembled, adds>>

\* the backoff sleep is over
WorkerWake(b) ==
    /\ bpc = "collect"
    /\ work[b].status = "sleeping"
    /\ work' = [work EXCEPT ![b].status = "running"]
    /\ UNCHANGED <<pipeVars, auxVars, bImpl, values, store, prior0, bpc, collected, assembled, adds>>

\* with lock: print(...) is over: the lock is released and the worker returns
WorkerUnlock(b) ==
    /\ bpc = "collect"
    /\ work[b].status = "printing"
    /\ work' = [work EXCEPT ![b].status = "done"]
    /\ UNCHANGED <<pipeVars, auxVars, bImpl, values, store, prior0, bpc, collected, assembled, adds>>

\* for future in as_completed(...): the main thread takes over one finished batch
Collect(b) ==
    /\ bpc = "collect"
    /\ work[b].status = "done"
    /\ ~InCollected(b)
    /\ collected' = Append(collected, b)
    /\ LET texts == Batches(values)[b]
           embeddings == work[b].result
       IN assembled' =
            IF bImpl = "nodes" /\ embeddings # <<>> /\ Len(embeddings) = Len(texts)
            THEN [texts |-> assembled.texts \o texts,
                  embeddings |-> assembled.embeddings \o embeddings]
            ELSE assembled              \* agent: results[batch_idx] = embeddings
    /\ UNCHANGED <<pipeVars, auxVars, bImpl, values, store, prior0, bpc, work, adds>>

\* every future has been taken over: the executor block is left.  agent:
\* for i in sorted(results.keys()): all_embeddings.extend(results[i])
LeaveExecutor ==
    /\ bpc = "collect"
    /\ Len(collected) = Len(work)
    /\ assembled' = IF bImpl = "agent"
                    THEN [texts |-> values,
                          embeddings |-> Flatten([k \in 1..Len(work) |-> work[k].result])]
                    ELSE assembled
    /\ bpc' = "add"
    /\ UNCHANGED <<pipeVars, auxVars, bImpl, values, store, prior0, work, collected, adds>>

\* collection.add(embeddings, documents, ids); src/utils skips it when nothing
\* was assembled
AddToCollection ==
    /\ bpc = "add"
    /\ IF bImpl = "nodes" /\ (assembled.embeddings = <<>> \/ assembled.texts = <<>>)
       THEN bpc' = "done" /\ UNCHANGED <<store, adds>>
       ELSE \/ /\ Len(assembled.embeddings) = Len(assembled.texts)
               /\ store' = [store EXCEPT !.entries =
                               @ \o NewEntries(assembled.texts, assembled.embeddings)]
               /\ adds' = Append(adds, "main")
               /\ bpc' = "done"
            \/ bpc' = "aborted" /\ UNCHANGED <<store, adds>>     \* the store raises (it
                                 \* does when the lists differ in length)
    /\ UNCHANGED <<pipeVars, auxVars, bImpl, values, prior0, work, collected, assembled>>

NextBuild ==
    \/ ExtractValues
    \/ DeletePrior
    \/ CreateCollection
    \/ SubmitBatches
    \/ \E b \in 1..Len(work) : WorkerStart(b)
    \/ \E b \in 1..Len(work) : WorkerCall(b)
    \/ \E b \in 1..Len(work) : WorkerWake(b)
    \/ \E b \in 1..Len(work) : WorkerUnlock(b)
    \/ \E b \in 1..Len(work) : Collect(b)
    \/ LeaveExecutor
    \/ AddToCollection

SpecBuild == InitBuild /\ [][NextBuild]_vars


\* the threads of the rebuild keep being scheduled until it is over
FairSpecBuild == SpecBuild /\ WF_vars(NextBuild)

-----------------------------------------------------------------------------
(* Claims about the rebuild of a column                                    *)

Entries == store.entries

BuildOver == bpc \in {"done", "aborted", "skipped"}

AllReturned == \A b \in 1..Len(work) : work[b].status = "done"

\* the position of value v in the extracted value set
PositionOf(v) == CHOOSE k \in 1..Len(values) : values[k] = v

BatchOfPosition(k) == ((k - 1) \div BATCH_SIZE) + 1

\* C6: after a rebuild in which every batch was embedded, whatever the order
\* in which the batches completed, the entry with id k holds the k-th value of
\* the extracted value set, and the ids of the collection are pairwise distinct.
C6_IdsFollowValueOrder ==
    (bpc = "done" /\ \A b \in 1..Len(work) : work[b].ok)
        => /\ \A k \in 1..Len(Entries) :
                  /\ Entries[k].id + 1 \in 1..Len(values)
                  /\ Entries[k].doc = values[Entries[k].id + 1]
           /\ \A j, k \in 1..Len(Entries) : j # k => Entries[j].id # Entries[k].id

\* C7: after a rebuild of a non-empty value set the collection holds exactly
\* one entry for every value, also when every attempt of some batch failed:
\* the values of such a batch are stored with zero-vectors of the dimension.
C7_EveryValueIndexed ==
    (bpc = "done" /\ values # <<>>)
        => /\ store.exists
           /\ Len(Entries) = Len(values)
           /\ \A v \in 1..Len(values) :
                  Cardinality({k \in 1..Len(Entries) : Entries[k].doc = values[v]}) = 1
           /\ \A k \in 1..Len(Entries) :
                  LET b == BatchOfPosition(PositionOf(Entries[k].doc))
                  IN ~work[b].ok => Entries[k].vec = ZeroVector

\* C8: a worker calls the Embedding Client at most 3 times for its batch, makes
\* no call after a successful one, sleeps 2^attempt seconds (1, then 2) exactly
\* between a failed attempt and the next one and not after the last, and ends
\* with a result; every rebuild comes to an end.
C8_Attempts ==
    \A b \in 1..Len(work) :
        LET w == work[b] IN
        /\ w.calls <= 3
        /\ w.ok => (w.status \in {"done", "printing"}
                        /\ w.result \in ClientResults(Batches(values)[b]))
        /\ \A k \in 1..Len(w.sleeps) : w.sleeps[k] = Pow2(k - 1)
        /\ Len(w.sleeps) = IF w.status \in {"done", "printing"} THEN w.calls - 1 ELSE w.calls
        /\ w.status \in {"running", "sleeping"} => w.calls < 3
        /\ (w.status = "done" /\ ~w.ok) => w.result \in {<<>>,
                                     [k \in 1..Len(Batches(values)[b]) |-> ZeroVector]}

C8_RetryDiscipline == []C8_Attempts /\ <>BuildOver

C8_Witness ==
    \E b \in 1..Len(work) :
        /\ work[b].status = "done" /\ ~work[b].ok
        /\ work[b].calls = 3 /\ work[b].sleeps = <<1, 2>>

\* C9 as stated: while some batch of the new value set has not returned from
\* embedding, a collection that existed before the rebuild is still there with
\* its prior contents.
C9_PriorKeptWhileEmbedding ==
    (prior0.exists /\ work # <<>> /\ ~AllReturned) => store = prior0

\* C9 as amended: the collection of that name is deleted and created afresh
\* before any batch is submitted; from the submission until the insert, and so
\* whenever a batch is pending or retrying, the collection is the fresh, empty
\* one, and no batch exists before the fresh collection does.
C9_FreshBeforeEmbedding ==
    /\ bpc \in {"submit", "collect", "add"} => store = [exists |-> TRUE, entries |-> <<>>]
    /\ bpc \in {"extract", "delete", "create"} => work = <<>>

C9_Witness ==
    /\ prior0.exists
    /\ \E b \in 1..Len(work) : work[b].status = "sleeping"
    /\ store = [exists |-> TRUE, entries |-> <<>>]

\* C10: the collection never holds prior and new entries together nor a part
\* of the new ones; the bulk insert is made exactly once in a rebuild, by the
\* main thread, into the fresh collection, after every worker has finished.
C10_SingleInsertAfterBarrier ==
    /\ ~(\E j, k \in 1..Len(Entries) : Entries[j].of = "prior" /\ Entries[k].of = "new")
    /\ (\E k \in 1..Len(Entries) : Entries[k].of = "new")
          => (bpc = "done" /\ AllReturned /\ Len(collected) = Len(work)
              /\ Entries = NewEntries(assembled.texts, assembled.embeddings))
    /\ Len(adds) <= 1
    /\ \A k \in 1..Len(adds) : adds[k] = "main"
    /\ bpc = "done" => Len(adds) = 1


-----------------------------------------------------------------------------
(* Two rebuilds of the same collection, the source table unchanged         *)

\* initialize_collection is called again for the column after a finished
\* rebuild: the extraction query (SELECT DISTINCT ... ORDER BY) returns the same
\* values, and the collection the first rebuild left is now the prior one.
RebuildAgain ==
    /\ bpc = "done"
    /\ prior0 \in PriorStores
    /\ LET left == [store EXCEPT !.entries =
                        [k \in 1..Len(store.entries) |-> [store.entries[k] EXCEPT !.of = "prior"]]]
       IN store' = left /\ prior0' = left
    /\ bpc' = "delete"
    /\ work' = <<>>
    /\ collected' = <<>>
    /\ assembled' = [texts |-> <<>>, embeddings |-> <<>>]
    /\ adds' = <<>>
    /\ UNCHANGED <<pipeVars, auxVars, bImpl, values>>

NextRebuild ==
    \/ ExtractValues
    \/ DeletePrior
    \/ CreateCollection
    \/ SubmitBatches
    \/ \E b \in 1..Len(work) : WorkerStart(b)
    \/ \E b \in 1..Len(work) : WorkerCall(b)
    \/ \E b \in 1..Len(work) : WorkerWake(b)
    \/ \E b \in 1..Len(work) : WorkerUnlock(b)
    \/ \E b \in 1..Len(work) : Collect(b)
    \/ LeaveExecutor
    \/ AddToCollection
    \/ RebuildAgain

SpecRebuild == InitBuild /\ [][NextRebuild]_vars

\* the id-to-document mapping of a collection
IdToDoc(s) == {<<s.entries[k].id, s.entries[k].doc>> : k \in 1..Len(s.entries)}

SecondRebuildDone == bpc = "done" /\ prior0 \notin PriorStores

\* C11: when a second rebuild of the collection from the unchanged value set
\* is done, the collection holds the same documents under the same ids as the
\* collection the first rebuild left, whatever the worker scheduling was.
C11_RebuildIsOrderStable ==
    SecondRebuildDone => IdToDoc(store) = IdToDoc(prior0)


-----------------------------------------------------------------------------
(* The Category Resolver: one call of a resolver tool, or of               *)
(* CategorySearchTools._search_similar directly.  Distances and             *)
(* similarities are in hundredths: similarity = 100 - distance.            *)

MaxTopK == 3
N_RESULTS_DEFAULT == 5
SIMILARITY_THRESHOLD == 30          \* 0.3

\* cosine distances the store may report, around the threshold (70 <-> 0.3)
Distances == {0, 25, 69, 70, 71, 150}

\* collection.query(query_embeddings, n_results): at most n_results neighbours,
\* nearest first (the store's contract); a neighbour is [doc, distance]
StoreReplies(n) ==
    {[k \in 1..Len(d) |-> [doc |-> k, distance |-> d[k]]] :
        d \in {s \in UNION {[1..k -> Distances] : k \in 1..n} :
                  \A i \in 1..(Len(s) - 1) : s[i] <= s[i + 1]}}

\* if similarity >= self.similarity_threshold
MeetsThresholdStrict(similarity) == similarity > SIMILARITY_THRESHOLD

MeetsThreshold(similarity) == similarity >= SIMILARITY_THRESHOLD

\* the loop over zip(documents, distances)
RECURSIVE FilterSimilar(_)
FilterSimilar(neighbours) ==
    IF neighbours = <<>> THEN <<>>
    ELSE LET similarity == 100 - Head(neighbours).distance
         IN (IF MeetsThreshold(similarity)
             THEN <<[value |-> Head(neighbours).doc, similarity |-> similarity]>>
             ELSE <<>>) \o FilterSimilar(Tail(neighbours))

\* except Exception: return []
SearchFailed(r, why) == [r EXCEPT !.pc = "returned", !.result = <<>>, !.failed = why]

\* the text a resolver tool hands back to the generator
ToolReplyError(i, results) ==
    IF results = <<>> THEN "Erro na busca" ELSE "similares"

ToolReply(i, results) ==
    IF results = <<>>
    THEN (IF i = "agent" THEN "Nao foram encontrados similares"
          ELSE "Busca por similaridade nao disponivel. Use padroes LIKE")
    ELSE "similares"

NotFoundTexts ==
    {"Nao foram encontrados similares", "Busca por similaridade nao disponivel. Use padroes LIKE"}

InitResolve ==
    /\ impl \in {"agent", "nodes"}
    /\ st = IdleState
    /\ pc = "idle"
    /\ visited = <<>>
    /\ bq = [calls |-> 0, outcome |-> "none"]
    /\ gen = NoGen
    /\ frWriter = <<>>
    /\ cls = <<>>
    /\ genLog = <<>>
    /\ search = ResolverIdle
    /\ SideIdle
    /\ BuildIdle

\* a tool is called (n_results defaults to 5), or _search_similar directly
SearchCalled ==
    /\ search.pc = "idle"
    /\ \E t \in ToolNames \cup {"direct"}, c \in {"missing", "empty", "filled"} :
          \E n \in (IF t = "direct" THEN 1..MaxTopK ELSE {N_RESULTS_DEFAULT}) :
             search' = [search EXCEPT !.pc = "get", !.tool = t, !.coll = c, !.n_results = n]
    /\ UNCHANGED <<pipeVars, buildVars, cls, genLog, prompt, sideVars>>

\* chroma_client.get_collection; src/src/tools then checks collection.count()
GetCollection ==
    /\ search.pc = "get"
    /\ search' = IF search.coll = "missing" THEN SearchFailed(search, "get_collection")
                 ELSE IF impl = "nodes" /\ search.coll = "empty"
                      THEN [search EXCEPT !.pc = "returned", !.result = <<>>]
                 ELSE [search EXCEPT !.pc = "embed"]
    /\ UNCHANGED <<pipeVars, buildVars, cls, genLog, prompt, sideVars>>

\* openai_client.create_embeddings([query]); embeddings[0]
EmbedQuery ==
    /\ search.pc = "embed"
    /\ \E outcome \in {"ok", "raise", "malformed"} :
          LET called == [search EXCEPT !.embedCalls = @ + 1]
          IN search' = IF outcome = "ok" THEN [called EXCEPT !.pc = "query"]
                       ELSE SearchFailed(called, "embedding")
    /\ UNCHANGED <<pipeVars, buildVars, cls, genLog, prompt, sideVars>>

\* collection.query and the threshold filter
QueryStore ==
    /\ search.pc = "query"
    /\ LET called == [search EXCEPT !.queryCalls = @ + 1]
       IN \/ search' = SearchFailed(called, "query")
          \/ /\ search.coll = "empty"
             /\ search' = [called EXCEPT !.pc = "returned", !.result = <<>>]
          \/ /\ search.coll = "filled"
             /\ \E reply \in StoreReplies(search.n_results) :
                   search' = [called EXCEPT !.pc = "returned", !.neighbours = reply,
                                            !.result = FilterSimilar(reply)]
    /\ UNCHANGED <<pipeVars, buildVars, cls, genLog, prompt, sideVars>>

\* if not results: return the not-found text, else the list of similar values
ToolReturn ==
    /\ search.pc = "returned"
    /\ search.tool \in ToolNames
    /\ search' = [search EXCEPT !.pc = "done", !.text = ToolReply(impl, search.result)]
    /\ UNCHANGED <<pipeVars, buildVars, cls, genLog, prompt, sideVars>>

NextResolve ==
    \/ SearchCalled
    \/ GetCollection
    \/ EmbedQuery
    \/ QueryStore
    \/ ToolReturn

SpecResolve == InitResolve /\ [][NextResolve]_vars

SearchOver == search.pc \in {"returned", "done"}

\* C12: the list _search_similar returns holds only similarities (100 minus
\* the distance) that are at least the threshold 0.3, in non-increasing order,
\* at most n_results of them, and every neighbour the store returned whose
\* similarity is at least the threshold is in it.
C12_ResolveFiltersByThreshold ==
    SearchOver =>
        LET r == search.result IN
        /\ \A k \in 1..Len(r) : r[k].similarity >= 30
        /\ \A k \in 1..(Len(r) - 1) : r[k].similarity >= r[k + 1].similarity
        /\ Len(r) <= search.n_results
        /\ \A j \in 1..Len(search.neighbours) :
              100 - search.neighbours[j].distance >= 30
                 => \E k \in 1..Len(r) :
                       /\ r[k].value = search.neighbours[j].doc
                       /\ r[k].similarity = 100 - search.neighbours[j].distance

C12_Witness ==
    /\ SearchOver
    /\ search.n_results = N_RESULTS_DEFAULT
    /\ Len(search.neighbours) = 5
    /\ Len(search.result) = 3
    /\ search.result[3].similarity = 30

\* C13: when the collection is missing or empty or a call to the embedding
\* provider or to the store failed, the search is over by returning the empty
\* list, after at most one call to the provider and one to the store, and the
\* tool hands the generator one of the not-found texts.
C13_ResolveFailureIsNoMatch ==
    (SearchOver /\ (search.coll \in {"missing", "empty"} \/ search.failed # "none"))
        => /\ search.result = <<>>
           /\ search.embedCalls <= 1
           /\ search.queryCalls <= 1
           /\ search.failed = "embedding" => search.queryCalls = 0
           /\ search.pc = "done" => search.text \in NotFoundTexts

C13_Witness ==
    /\ search.pc = "done"
    /\ search.failed = "embedding"
    /\ search.embedCalls = 1
    /\ search.text \in NotFoundTexts


-----------------------------------------------------------------------------
(* Claims about the router and about failures in a run of the pipeline     *)

RouterOver == visited # <<>>

\* the first edge taken (or the exception) is still the position of the run
JustRouted == visited = <<"router">>

\* a reply that is the data_query label and nothing else (case and
\* surrounding whitespace aside)
Unambiguous(r) == r.outcome = "ok" /\ Lower(Strip(r.content)) = <<"data_query">>

\* C14: the router makes exactly one classification call, and the run goes on
\* to sql_generator only if the reply is the data_query label alone; on every
\* other reply (both labels, more text, empty, other text, a non-200 status, a
\* transport failure) it goes on to conversational_responder.
C14_RouterFailsSafe ==
    RouterOver =>
        /\ Len(cls) = 1
        /\ JustRouted => pc = IF Unambiguous(cls[1]) THEN "sql_generator"
                              ELSE "conversational_responder"

\* C15: for a question with no text the router does not raise and the run goes
\* on to conversational_responder; sql_generator and sql_executor are never
\* entered.
C15_EmptyQuestionIsConversational ==
    (st.question = <<>> /\ RouterOver) =>
        /\ JustRouted => pc = "conversational_responder"
        /\ \A k \in 1..Len(visited) : visited[k] \notin {"sql_generator", "sql_executor"}

\* C16: every run that is over, whatever external call failed in it, ended at
\* END with final_response written by response_synthesizer or
\* conversational_responder; no exception left a node.
C16_FailuresAbsorbed ==
    /\ pc # "raised"
    /\ pc = "END" => /\ frWriter # <<>>
                     /\ Last(frWriter) \in {"response_synthesizer", "conversational_responder"}

\* raw texts of failures: an HTTP status code, an exception message, the
\* message of the data-execution collaborator
RawErrorTokens == {"500", "EXC", "BQ_ERROR", "NO_CREDENTIALS"}

\* C17: the final_response a finished run hands to the user holds no status
\* code, no exception message and not the text of the generated query.
C17_NoRawErrorInFinalResponse ==
    pc = "END" =>
        /\ \A k \in 1..Len(st.final_response) : st.final_response[k] \notin RawErrorTokens
        /\ (st.sql_query # None /\ st.sql_query # <<>>)
              => ~Contains(st.final_response, st.sql_query)


-----------------------------------------------------------------------------
(* Claims about the two phases of sql_generator (checked on SpecGen)       *)

GeneratorRan == Last(visited) = "sql_generator"

\* positions of the generation calls after the first one
LaterGenerations == {k \in 2..Len(genLog) : genLog[k].ev = "generate"}

\* every ToolCall names one of the four resolvers and carries its argument
WellFormedCalls ==
    \A k \in 1..Len(gen.calls) : gen.calls[k].name \in ToolNames /\ gen.calls[k].res # "raise"

NamedResolvers == {k \in 1..Len(gen.calls) : gen.calls[k].name \in ToolNames}

C19_ContextFollowsToolCalls ==
    (GeneratorRan /\ WellFormedCalls) =>
        \A g \in LaterGenerations :
            LET context == genLog[g].context IN
            /\ Len(context) = Len(gen.calls)
            /\ \A k \in 1..Len(gen.calls) :
                  /\ context[k][1] = gen.calls[k].name
                  /\ context[k][2] = gen.calls[k].query
                  /\ context[k][3] = ToolText(gen.calls[k])
                  /\ genLog[k + 1] = ResolveCall(gen.calls[k])

C19_Witness ==
    /\ GeneratorRan
    /\ Len(gen.calls) = 3
    /\ gen.calls[1].query = "poste" /\ gen.calls[2].query = "luz"
    /\ LaterGenerations = {5}
    /\ Len(genLog[5].context) = 3

\* C20: the query text stored in sql_query neither begins nor ends with a
\* code fence, with or without a language tag.
C20_NoFenceAroundStoredQuery ==
    (GeneratorRan /\ pc = "sql_executor" /\ st.sql_query # None /\ st.sql_query # <<>>)
        => /\ Head(st.sql_query) # FENCE
           /\ Last(st.sql_query) # FENCE


-----------------------------------------------------------------------------
(* response_synthesizer alone, on results of up to MaxResultRows rows.  It  *)
(* starts where sql_executor has returned.                                 *)

MaxResultRows == 12

SynthGenInputs ==
    {GenInput("ok", "ok", <<>>, GoodSql, "none", <<>>),
     GenInput("ok", "ok", <<>>, <<>>, "none", <<>>),
     GenInput("ok", "http_error", <<>>, <<>>, "none", <<>>)}

SynthExecOutcomes(i) ==
    {[outcome |-> "rows", n |-> n] : n \in 0..MaxResultRows}
        \cup {[outcome |-> "throws", n |-> 0]}
        \cup (IF i = "nodes" THEN {[outcome |-> "no_creds", n |-> 0]} ELSE {})

\* the results of sql_generator and then sql_executor on a data_query question
AfterGenerator(i, q, g) ==
    IF i = "agent" THEN SqlGeneratorAgent(AfterRouter(i, q), g)
    ELSE SqlGeneratorNodes(AfterRouter(i, q), g)

AfterExecutor(i, s, x) ==
    IF i = "agent" THEN SqlExecutorAgent(s, x) ELSE SqlExecutorNodes(s, x)

InitSynth ==
    /\ impl \in {"agent", "nodes"}
    /\ \E q \in Questions, g \in SynthGenInputs, x \in SynthExecOutcomes(impl) :
          LET a == AfterGenerator(impl, q, g)
              b == AfterExecutor(impl, a.st, x)
          IN /\ ~a.raised /\ ~b.raised
             /\ st = b.st
             /\ gen = g
             /\ genLog = IF impl = "agent" THEN GenLogAgent(g) ELSE GenLogNodes(g)
             /\ bq = IF BqCalled(a.st.sql_query, x)
                     THEN [calls |-> 1, outcome |-> x.outcome]
                     ELSE [calls |-> 0, outcome |-> "none"]
    /\ pc = "response_synthesizer"
    /\ visited = <<"router", "sql_generator", "sql_executor">>
    /\ frWriter = <<>>
    /\ cls = <<Reply("ok", <<"data_query">>)>>
    /\ search = ResolverIdle
    /\ SideIdle
    /\ BuildIdle

SynthStep == ResponseSynthesizerStep

NextSynth == SynthStep

SpecSynth == InitSynth /\ [][NextSynth]_vars

SynthesizerRan == Last(visited) = "response_synthesizer"

\* C21: the prompt response_synthesizer built is the apology request exactly
\* when the state holds an error; otherwise its summary holds, for N rows, the
\* first min(N, 10) rows in order, the count N - 10 of the others exactly when
\* N > 10, and no row after the tenth; for no rows it is the fixed text.
C21_SummaryOfFirstTenRows ==
    SynthesizerRan =>
        LET N == IF st.data_result = None THEN 0 ELSE Len(st.data_result)
            shown == IF N <= 10 THEN N ELSE 10
        IN
        /\ prompt.branch = "apology" <=> (st.error # None /\ st.error # <<>>)
        /\ prompt.branch = "apology" => prompt.error = st.error
        /\ (prompt.branch = "data" /\ N = 0)
              => prompt.summary = <<"Nenhum resultado encontrado.">>
        /\ (prompt.branch = "data" /\ N > 0)
              => /\ SubSeq(prompt.summary, 3, 2 + shown) = SubSeq(st.data_result, 1, shown)
                 /\ \A k \in 1..Len(prompt.summary), j \in 11..N :
                        prompt.summary[k] # st.data_result[j]
                 /\ Len(prompt.summary) = 2 + shown + (IF N > 10 THEN 2 ELSE 0)
                 /\ N > 10 => Last(prompt.summary) = Num(N - 10)

C21_Witness ==
    /\ SynthesizerRan
    /\ prompt.branch = "data"
    /\ Len(st.data_result) = 12
    /\ Len(prompt.summary) = 14
    /\ Last(prompt.summary) = "2"


-----------------------------------------------------------------------------
(* initialize_all_collections: the four configured columns, one rebuild     *)
(* each, of at most MaxAllValues values.                                    *)

MaxAllValues == 1

collections_config(i) ==
    IF i = "agent"
    THEN <<"nome_unidade_organizacional", "id_unidade_organizacional_mae", "tipo", "subtipo">>
    ELSE <<"tipo", "subtipo", "nome_unidade_organizacional", "id_unidade_organizacional_mae">>

NumColumns == Len(collections_config(bImpl))

Logged(column, outcome) == [column |-> column, outcome |-> outcome]

\* a loop whose handler lets the exception go on
LoopHandlerReraise(c, column) ==
    [c EXCEPT !.log = Append(@, Logged(column, "failed")), !.over = TRUE, !.raised = TRUE]

\* except Exception as e: print(...) ; the for loop goes on
LoopHandler(c, column) ==
    [c EXCEPT !.log = Append(@, Logged(column, "failed"))]

InitAll ==
    /\ bImpl \in {"agent", "nodes"}
    /\ values = <<>>
    /\ store = [exists |-> FALSE, entries |-> <<>>]
    /\ prior0 = store
    /\ bpc = "idle"
    /\ work = <<>>
    /\ collected = <<>>
    /\ assembled = [texts |-> <<>>, embeddings |-> <<>>]
    /\ adds = <<>>
    /\ PipelineIdle

\* the loop takes the next configured column; its collection is there or not
ColumnStart ==
    /\ bpc = "idle"
    /\ ~cols.over
    /\ cols.i < NumColumns
    /\ cols' = [cols EXCEPT !.i = @ + 1]
    /\ values' = <<>>
    /\ store' \in PriorStores
    /\ prior0' = store'
    /\ bpc' = "extract"
    /\ work' = <<>>
    /\ collected' = <<>>
    /\ assembled' = [texts |-> <<>>, embeddings |-> <<>>]
    /\ adds' = <<>>
    /\ UNCHANGED <<pipeVars, bImpl, cls, genLog, search, prompt, client, boot>>

\* the rebuild of the column, as in SpecBuild
ColumnBuildStep ==
    /\ NextBuild
    /\ Len(values') <= MaxAllValues

\* the body of the try block is over without an exception
ColumnReturns ==
    /\ bpc \in {"done", "skipped"}
    /\ cols' = [cols EXCEPT !.log = Append(@, Logged(collections_config(bImpl)[cols.i], bpc))]
    /\ bpc' = "idle"
    /\ UNCHANGED <<pipeVars, bImpl, values, store, prior0, work, collected, assembled, adds,
                   cls, genLog, search, prompt, client, boot>>

\* the body of the try block raised
ColumnRaises ==
    /\ bpc = "aborted"
    /\ cols' = LoopHandler(cols, collections_config(bImpl)[cols.i])
    /\ bpc' = "idle"
    /\ UNCHANGED <<pipeVars, bImpl, values, store, prior0, work, collected, assembled, adds,
                   cls, genLog, search, prompt, client, boot>>

\* the loop is exhausted: the totals are printed (and the collections verified)
LoopEnd ==
    /\ bpc = "idle"
    /\ ~cols.over
    /\ cols.i = NumColumns
    /\ cols' = [cols EXCEPT !.over = TRUE]
    /\ UNCHANGED <<pipeVars, buildVars, cls, genLog, search, prompt, client, boot>>

NextAll ==
    \/ ColumnStart
    \/ ColumnBuildStep
    \/ ColumnReturns
    \/ ColumnRaises
    \/ LoopEnd

SpecAll == InitAll /\ [][NextAll]_vars

BetweenColumns == bpc = "idle" /\ ~cols.over

\* C22: in a rebuild of all collections every configured column is attempted
\* once, in the configured order; a column whose rebuild raised is logged as
\* failed, the exception goes no further, and the loop goes on with the column
\* after it: when the loop is over all four columns have been attempted.
C22_EveryColumnAttemptedOnce ==
    /\ ~cols.raised
    /\ cols.i \in 0..NumColumns
    /\ Len(cols.log) = (IF bpc = "idle" THEN cols.i ELSE cols.i - 1)
    /\ \A k \in 1..Len(cols.log) : cols.log[k].column = collections_config(bImpl)[k]
    /\ cols.over => Len(cols.log) = NumColumns
    /\ (BetweenColumns /\ cols.i < NumColumns) => ENABLED ColumnStart

C22_Witness ==
    /\ cols.over
    /\ cols.log[1].outcome = "failed"
    /\ cols.log[2].outcome = "done"
    /\ cols.log[3].outcome = "failed"
    /\ cols.log[4].outcome = "done"

\* C23: a column whose extracted value set is empty is skipped: no embedding
\* call is made, nothing is deleted, created or inserted (the collection is as
\* it was before), the column is logged as skipped and not as failed, and the
\* loop goes on with the next column.
C23_EmptyColumnSkipped ==
    /\ (values = <<>> /\ bpc \notin {"idle", "extract", "aborted"}) => bpc = "skipped"
    /\ bpc = "skipped"
          => /\ values = <<>>
             /\ work = <<>> /\ collected = <<>>
             /\ adds = <<>>
             /\ store = prior0
    /\ (bpc = "idle" /\ cols.log # <<>> /\ Last(cols.log).outcome = "skipped")
          => /\ store = prior0 /\ work = <<>> /\ adds = <<>>
             /\ ~cols.raised
             /\ (~cols.over /\ cols.i < NumColumns) => ENABLED ColumnStart

C23_Witness ==
    /\ Len(cols.log) >= 2
    /\ cols.log[1].outcome = "skipped"
    /\ cols.log[2].outcome = "done"
    /\ prior0.exists


-----------------------------------------------------------------------------
(* More claims about the rebuild of one column (SpecBuild)                  *)

InValues(d) == \E k \in 1..Len(values) : values[k] = d

\* C24: when the rebuild of a column with a non-empty value set is complete
\* the collection exists and each of its entries was inserted by this rebuild
\* with a document of the value set extracted in it; at no time does the
\* collection hold an entry of this rebuild next to one from before it, also
\* when the prior collection could not be deleted or batches failed.
C24_RebuildReplaces ==
    /\ (bpc = "done" /\ values # <<>>)
          => /\ store.exists
             /\ \A k \in 1..Len(Entries) :
                    Entries[k].of = "new" /\ InValues(Entries[k].doc)
    /\ \A j, k \in 1..Len(Entries) : Entries[j].of = Entries[k].of
    /\ (\E k \in 1..Len(Entries) : Entries[k].of = "prior") => store = prior0

C24_Witness ==
    /\ bpc = "done"
    /\ prior0.exists
    /\ Entries # <<>>
    /\ \E b \in 1..Len(work) : ~work[b].ok

\* C25: the N extracted values are cut into ceil(N / BATCH_SIZE) batches, none
\* empty, all of BATCH_SIZE values but possibly the last, which put together
\* in index order are the value set; and when no batch failed, the assembled
\* embeddings are N in number, the k-th being that of the k-th value.
C25_BatchesReassembleInOrder ==
    LET bs == Batches(values)
        N == Len(values)
    IN /\ Len(bs) = (N + BATCH_SIZE - 1) \div BATCH_SIZE
       /\ \A b \in 1..Len(bs) :
              /\ Len(bs[b]) \in 1..BATCH_SIZE
              /\ b < Len(bs) => Len(bs[b]) = BATCH_SIZE
       /\ Flatten(bs) = values
       /\ (bpc \in {"add", "done"} /\ \A b \in 1..Len(work) : work[b].ok)
             => /\ Len(assembled.embeddings) = N
                /\ \A k \in 1..N : assembled.embeddings[k] = Embedding(values[k])

-----------------------------------------------------------------------------
(* The worker pool with one batch more than it has threads                  *)

PoolBatches == THREAD_POOL_MAX_WORKERS + 1

\* the rebuild has extracted the values and created the fresh collection
InitPool ==
    /\ bImpl \in {"agent", "nodes"}
    /\ values = [k \in 1..(PoolBatches * BATCH_SIZE) |-> k]
    /\ store = [exists |-> TRUE, entries |-> <<>>]
    /\ prior0 \in PriorStores
    /\ bpc = "submit"
    /\ work = <<>>
    /\ collected = <<>>
    /\ assembled = [texts |-> <<>>, embeddings |-> <<>>]
    /\ adds = <<>>
    /\ PipelineIdle

NextPool ==
    \/ SubmitBatches
    \/ \E b \in 1..Len(work) : WorkerStart(b)
    \/ \E b \in 1..Len(work) : WorkerCall(b)
    \/ \E b \in 1..Len(work) : WorkerWake(b)
    \/ \E b \in 1..Len(work) : WorkerUnlock(b)
    \/ \E b \in 1..Len(work) : Collect(b)
    \/ LeaveExecutor

SpecPool == InitPool /\ [][NextPool]_vars

InPool(b) == work[b].status \in {"running", "sleeping", "printing"}

\* a step of the worker that holds batch b
WorkerStep(b) == WorkerCall(b) \/ WorkerWake(b) \/ WorkerUnlock(b)

\* the attempt of batch b returns its embeddings
CallReturns(b) == WorkerCall(b) /\ work'[b].ok

PoolLimit ==
    /\ Cardinality({b \in 1..Len(work) : InPool(b)}) <= 3
    /\ \A b \in 1..Len(work) : work[b].status = "queued"
          => \A c \in (b + 1)..Len(work) : work[c].status = "queued"

NoLockAsleep ==
    /\ Cardinality(LockHolders) <= 1
    /\ \A b \in 1..Len(work) : work[b].status = "sleeping" => b \notin LockHolders
    /\ \A b \in LockHolders : ENABLED WorkerUnlock(b)

\* a running worker can complete its call unless another one is printing under
\* the lock; sleeping workers never stand in its way
OthersComplete ==
    \A c \in 1..Len(work) :
        (work[c].status = "running" /\ LockHolders = {}) => ENABLED CallReturns(c)

OwnBatchOnly ==
    \A b \in 1..Len(work) :
        WorkerStep(b)
            => /\ \A c \in 1..Len(work) : c # b => work'[c] = work[c]
               /\ Len(work') = Len(work)
               /\ UNCHANGED <<values, store, collected, assembled, adds, bpc>>

\* C26: at most 3 batches are in the hands of pool threads at any time, the
\* sleeping ones counted; a step of a worker changes its own batch's record
\* and nothing else; no worker sleeps holding the lock, and while workers
\* sleep every running worker can still complete its call.
C26_PoolBoundAndIsolation ==
    /\ [](PoolLimit /\ NoLockAsleep /\ OthersComplete)
    /\ [][OwnBatchOnly]_vars

C26_Witness ==
    /\ bImpl = "nodes"
    /\ Len(work) = 4
    /\ work[1].status = "sleeping" /\ work[2].status = "sleeping"
    /\ work[3].status = "done" /\ work[3].ok
    /\ work[4].status = "running"

-----------------------------------------------------------------------------
(* The fields each node of the pipeline writes (Spec)                       *)

StateFields == {"question", "intent", "route", "sql_query", "data_result",
                "final_response", "error", "tool_context"}

OwnFields(node) ==
    CASE node = "router" -> {"intent", "route"}
      [] node = "sql_generator" -> {"sql_query", "tool_context"}
      [] node = "sql_executor" -> {"data_result", "error"}
      [] node = "response_synthesizer" -> {"final_response"}
      [] node = "conversational_responder" -> {"final_response"}
      [] OTHER -> {}

IsPrefix(a, b) == Len(a) <= Len(b) /\ SubSeq(b, 1, Len(a)) = a

NodeRuns == pc \in {"router", "sql_generator", "sql_executor", "response_synthesizer",
                    "conversational_responder"}

\* C27: the step of a node leaves every field of the state that is not its
\* own as it was, the question included; the message log after the step
\* starts with the log before it, and its first entry is the user's question.
C27_NodesWriteOwnFields ==
    [][NodeRuns =>
          /\ \A f \in StateFields \ OwnFields(pc) : st'[f] = st[f]
          /\ IsPrefix(st.messages, st'.messages)
          /\ st'.messages # <<>> /\ st'.messages[1] = Msg("user", st'.question)]_vars

-----------------------------------------------------------------------------
(* OpenAIClient.create_embeddings: one call, against every reply of the     *)
(* provider                                                                 *)

MaxEmbedTexts == 3

EmbedTexts == UNION {[1..n -> {1, 2}] : n \in 1..MaxEmbedTexts}

Item(text) == [hasEmbedding |-> TRUE, embedding |-> Embedding(text)]

\* {"data": [{"embedding": ...}, ...]} for the texts of the request
FullData(texts) == [k \in 1..Len(texts) |-> Item(texts[k])]

JsonBody(data) == [json |-> TRUE, hasData |-> TRUE, data |-> data]
ErrorBody == [json |-> TRUE, hasData |-> FALSE, data |-> <<>>]
NotJson == [json |-> FALSE, hasData |-> FALSE, data |-> <<>>]

Response(status, body) == [status |-> status, body |-> body]
NoResponse == Response(0, NotJson)

\* what requests.post can come back with
Replies(texts) ==
    {Response(200, JsonBody(FullData(texts)))}
        \cup {Response(200, JsonBody(SubSeq(FullData(texts), 1, k))) : k \in 0..(Len(texts) - 1)}
        \cup {Response(200, JsonBody([FullData(texts) EXCEPT ![1].hasEmbedding = FALSE])),
              Response(200, ErrorBody),
              Response(200, NotJson),
              Response(429, ErrorBody),
              Response(500, NotJson)}

InitEmbed ==
    /\ \E texts \in EmbedTexts :
          client = [pc |-> "post", texts |-> texts, requests |-> <<>>, reply |-> NoResponse,
                    result |-> <<>>, raised |-> FALSE]
    /\ prompt = NoPrompt /\ cols = ColsIdle /\ boot = BootReady
    /\ impl = "agent" /\ st = IdleState /\ pc = "idle" /\ visited = <<>>
    /\ bq = [calls |-> 0, outcome |-> "none"] /\ gen = NoGen /\ frWriter = <<>>
    /\ cls = <<>> /\ genLog = <<>> /\ search = ResolverIdle
    /\ BuildIdle

ClientRaises(c) == [c EXCEPT !.pc = "raised", !.raised = TRUE]

\* response = requests.post(url, headers=self.headers, json=data)
Post ==
    /\ client.pc = "post"
    /\ \/ \E r \in Replies(client.texts) :
             client' = [client EXCEPT !.pc = "status", !.reply = r,
                                      !.requests = Append(@, client.texts)]
       \/ client' = ClientRaises([client EXCEPT !.requests = Append(@, client.texts)])
    /\ UNCHANGED <<pipeVars, buildVars, cls, genLog, search, prompt, cols, boot>>

\* response.raise_for_status()
RaiseForStatus ==
    /\ client.pc = "status"
    /\ client' = IF client.reply.status >= 400 THEN ClientRaises(client)
                 ELSE [client EXCEPT !.pc = "parse"]
    /\ UNCHANGED <<pipeVars, buildVars, cls, genLog, search, prompt, cols, boot>>

\* result = response.json(); return [item["embedding"] for item in result["data"]]
ReturnEmbeddings ==
    /\ client.pc = "parse"
    /\ LET body == client.reply.body
       IN client' =
            IF ~body.json \/ ~body.hasData
                  \/ \E k \in 1..Len(body.data) : ~body.data[k].hasEmbedding
            THEN ClientRaises(client)
            ELSE [client EXCEPT !.pc = "returned",
                                !.result = [k \in 1..Len(body.data) |-> body.data[k].embedding]]
    /\ UNCHANGED <<pipeVars, buildVars, cls, genLog, search, prompt, cols, boot>>

NextEmbed ==
    \/ Post
    \/ RaiseForStatus
    \/ ReturnEmbeddings

SpecEmbed == InitEmbed /\ [][NextEmbed]_vars

ClientOver == client.pc \in {"returned", "raised"}

\* the provider answered 2xx with one item holding an embedding per input text
WellFormedReply ==
    /\ client.reply.status = 200
    /\ client.reply.body.json /\ client.reply.body.hasData
    /\ Len(client.reply.body.data) = Len(client.texts)
    /\ \A k \in 1..Len(client.texts) : client.reply.body.data[k].hasEmbedding

\* C28: one call of create_embeddings sends one request, holding the whole
\* batch; it returns only on a well-formed 2xx reply, and then one vector per
\* input text, in input order; on any other reply or none it raises and
\* returns nothing.
C28_OneRequestAllOrNothing ==
    /\ Len(client.requests) <= 1
    /\ client.pc \notin {"idle", "post"} => client.requests = <<client.texts>>
    /\ client.pc = "returned"
          => /\ WellFormedReply
             /\ client.result = [k \in 1..Len(client.texts) |-> Embedding(client.texts[k])]
    /\ (ClientOver /\ ~WellFormedReply) => (client.raised /\ client.result = <<>>)

-----------------------------------------------------------------------------
(* Construction and credentials: DataAnalystAgent.__init__ of agent.py, the *)
(* import of the node modules of src/src, and questions answered afterwards *)

Credentials == {"set", "missing"}

Failed(b) == [b EXCEPT !.stage = "failed", !.failed = TRUE]

\* _setup_llm: raise ValueError if not api_key
setup_llm(b) == IF b.openai = "missing" THEN Failed(b) ELSE [b EXCEPT !.stage = "llm"]

\* a client that is only built when the first query is run
setup_bigqueryUnchecked(b) == [b EXCEPT !.stage = "bigquery"]

\* _setup_bigquery: raise Exception if not key_path (or no such file, or the
\* client cannot be made)
setup_bigquery(b) ==
    IF b.google = "missing" THEN Failed(b) ELSE [b EXCEPT !.stage = "bigquery"]

InitBoot ==
    /\ impl \in {"agent", "nodes"}
    /\ \E o \in Credentials, g \in Credentials :
          boot = [stage |-> "new", openai |-> o, google |-> g, failed |-> FALSE]
    /\ st = IdleState
    /\ pc = "idle"
    /\ visited = <<>>
    /\ bq = [calls |-> 0, outcome |-> "none"]
    /\ gen = NoGen
    /\ frWriter = <<>>
    /\ cls = <<>>
    /\ genLog = <<>>
    /\ search = ResolverIdle
    /\ prompt = NoPrompt /\ cols = ColsIdle /\ client = ClientIdle
    /\ BuildIdle

BootFrame == UNCHANGED <<pipeVars, buildVars, cls, genLog, search, prompt, cols, client>>

SetupLlm ==
    /\ impl = "agent" /\ boot.stage = "new"
    /\ boot' = setup_llm(boot)
    /\ BootFrame

SetupBigquery ==
    /\ impl = "agent" /\ boot.stage = "llm"
    /\ boot' = setup_bigquery(boot)
    /\ BootFrame

\* _ensure_chromadb_initialized: whatever fails in it is printed, nothing raised
EnsureChromadb ==
    /\ impl = "agent" /\ boot.stage = "bigquery"
    /\ boot' = [boot EXCEPT !.stage = "chromadb"]
    /\ BootFrame

BuildGraph ==
    /\ impl = "agent" /\ boot.stage = "chromadb"
    /\ boot' = [boot EXCEPT !.stage = "ready"]
    /\ BootFrame

\* src/src: importing sql_generator builds category_tools = CategorySearchTools(),
\* which reads the OpenAI key; the other credentials are read by the nodes
ImportNodes ==
    /\ impl = "nodes" /\ boot.stage = "new"
    /\ boot' = IF boot.openai = "missing" THEN Failed(boot) ELSE [boot EXCEPT !.stage = "ready"]
    /\ BootFrame

\* a variable of the environment goes away while questions are answered; the
\* nodes of src/src read it at every call, agent.py only in __init__
CredentialLost ==
    /\ impl = "nodes" /\ boot.stage = "ready"
    /\ \/ boot.openai = "set" /\ boot' = [boot EXCEPT !.openai = "missing"]
       \/ boot.google = "set" /\ boot' = [boot EXCEPT !.google = "missing"]
    /\ BootFrame

Ready == boot.stage = "ready"

OpenAiMissing == impl = "nodes" /\ boot.openai = "missing"
GoogleMissing == impl = "nodes" /\ boot.google = "missing"

NoCredentialsError == <<"Erro ao executar SQL:", "NO_CREDENTIALS">>

BootRun == Ready /\ Run

\* get_openai_api_key() raises inside the try block of the node
BootRouterStep ==
    /\ Ready /\ RouterStep
    /\ OpenAiMissing => Last(cls').outcome = "exception"

BootGenStep ==
    /\ Ready /\ PipelineGenStep
    /\ OpenAiMissing => gen'.p1 = "exception"

\* get_google_credentials() raises inside the try block of sql_executor_node
BootExecStep ==
    /\ Ready /\ SqlExecutorStep
    /\ ~EmptyQuery(st.sql_query) => (GoogleMissing <=> st'.error = NoCredentialsError)

BootSynthStep ==
    /\ Ready /\ ResponseSynthesizerStep
    /\ OpenAiMissing => st'.final_response = <<"Erro ao sintetizar resposta:", "EXC">>

BootResponderStep ==
    /\ Ready /\ ConversationalResponderStep
    /\ OpenAiMissing
          => st'.final_response = <<"Ola! Sou o assistente. Como posso ajuda-lo com informacoes?">>

NextBoot ==
    \/ SetupLlm
    \/ SetupBigquery
    \/ EnsureChromadb
    \/ BuildGraph
    \/ ImportNodes
    \/ CredentialLost
    \/ BootRun
    \/ BootRouterStep
    \/ BootGenStep
    \/ BootExecStep
    \/ BootSynthStep
    \/ BootResponderStep

SpecBoot == InitBoot /\ [][NextBoot]_vars

GraphBuilt == boot.stage = "ready"

FailsAtStartup ==
    /\ (impl = "agent" /\ boot.stage \in {"chromadb", "ready"})
          => (boot.openai = "set" /\ boot.google = "set")
    /\ (impl = "agent" /\ boot.stage = "llm") => boot.openai = "set"
    /\ boot.failed <=> boot.stage = "failed"
    /\ boot.failed => (boot.openai = "missing" \/ boot.google = "missing")
    /\ ~GraphBuilt => (pc = "idle" /\ visited = <<>> /\ st = IdleState /\ bq.calls = 0)

AbsorbedInSteadyState ==
    (NodeRuns /\ visited' # visited /\ (boot.openai = "missing" \/ boot.google = "missing"))
        => /\ pc' # "raised"
           /\ (pc = "router" /\ boot.openai = "missing") => Classified' = "conversational"
           /\ (pc = "sql_generator" /\ boot.openai = "missing")
                 => (st'.sql_query = None /\ st'.error # None)
           /\ (pc = "sql_executor" /\ boot.google = "missing")
                 => (st'.error # None /\ st'.data_result = <<>> /\ bq' = bq)
           /\ (pc \in {"response_synthesizer", "conversational_responder"}
                  /\ boot.openai = "missing")
                 => st'.final_response # <<>>

\* C29: DataAnalystAgent is constructed only with both credentials there: when
\* one is missing the construction fails before the graph is built, and no
\* question is processed before the graph is built; a node that runs while a
\* credential is missing does not raise: the router answers conversational,
\* sql_generator and sql_executor return an error, the responders a text.
C29_CredentialsFatalAtStartupOnly ==
    /\ []FailsAtStartup
    /\ [][AbsorbedInSteadyState]_vars

C29_Witness ==
    /\ impl = "nodes"
    /\ boot.google = "missing"
    /\ pc = "END"
    /\ st.error = NoCredentialsError
    /\ st.final_response # <<>>

-----------------------------------------------------------------------------
(* The lists handed to collection.add (SpecBuild)                           *)

\* collection.add is about to be called with assembled.texts and
\* assembled.embeddings
InsertCalled ==
    /\ bpc = "add"
    /\ ~(bImpl = "nodes" /\ (assembled.embeddings = <<>> \/ assembled.texts = <<>>))

OwnVector(text, vec) == vec = Embedding(text) \/ vec = ZeroVector

\* C30: the documents and the embeddings handed to the bulk insert are equal
\* in number (the ids are made one per document), the i-th embedding is the one
\* obtained for the i-th document (the zero-vector when its batch failed), and
\* so is the vector of every entry of the collection, whatever the order in
\* which the batches completed and whichever of them failed.
C30_VectorsAlignedWithDocuments ==
    /\ InsertCalled
          => /\ Len(assembled.embeddings) = Len(assembled.texts)
             /\ \A i \in 1..Len(assembled.texts) :
                    OwnVector(assembled.texts[i], assembled.embeddings[i])
    /\ \A k \in 1..Len(Entries) :
           Entries[k].of = "new" => OwnVector(Entries[k].doc, Entries[k].vec)

-----------------------------------------------------------------------------
(* sql_executor and response_synthesizer on every kind of stored query      *)

StoredQueries ==
    {None, <<>>, <<SP>>, <<NL, SP>>, <<"SELECT", SP, "tbl">>, <<SP, "SELECT", NL>>}

\* the state sql_generator leaves behind, with the stored query q
WithQuery(i, question, q) ==
    [AfterRouter(i, question) EXCEPT !.sql_query = q]

InitExec ==
    /\ impl \in {"agent", "nodes"}
    /\ \E question \in Questions, q \in StoredQueries : st = WithQuery(impl, question, q)
    /\ pc = "sql_executor"
    /\ visited = <<"router", "sql_generator">>
    /\ bq = [calls |-> 0, outcome |-> "none"]
    /\ gen = NoGen
    /\ frWriter = <<>>
    /\ cls = <<Reply("ok", <<"data_query">>)>>
    /\ genLog = <<>>
    /\ search = ResolverIdle
    /\ SideIdle
    /\ BuildIdle

NextExec ==
    \/ SqlExecutorStep
    \/ ResponseSynthesizerStep

SpecExec == InitExec /\ [][NextExec]_vars

\* None, the empty text, or white space only
BlankQuery(q) == q = None \/ \A k \in 1..Len(q) : IsWs(q[k])

ExecutorRan == Len(visited) >= 3 /\ visited[3] = "sql_executor"

\* C31: when the stored query is None, empty or white space, sql_executor
\* leaves the fixed error message and an empty result, the data-execution
\* collaborator is not called, the next node is response_synthesizer, and
\* response_synthesizer builds the apology prompt.
C31_BlankQueryIsAnError ==
    (ExecutorRan /\ BlankQuery(st.sql_query))
        => /\ st.error = <<"SQL query vazia ou invalida">>
           /\ st.data_result = <<>>
           /\ bq.calls = 0
           /\ Len(visited) = 3 => pc = "response_synthesizer"
           /\ Len(visited) = 4
                 => (visited[4] = "response_synthesizer" /\ prompt.branch = "apology"
                     /\ prompt.error = <<"SQL query vazia ou invalida">>)

C31_Witness ==
    /\ Len(visited) = 4
    /\ st.sql_query = <<NL, SP>>
    /\ prompt.branch = "apology"
    /\ bq.calls = 0


-----------------------------------------------------------------------------
(* The fallback templates of sql_generator_node (src/agent.py): the        *)
(* generator alone, on questions that mention every combination of the     *)
(* four keywords, in an order where "buraco" comes before "iluminacao".    *)

Keywords == <<"buraco", "estacionamento", "fiscalizacao", "iluminacao">>

RECURSIVE WordsOf(_, _, _)
WordsOf(f, cap, k) ==
    IF k > Len(Keywords) THEN <<>>
    ELSE LET w == IF cap /\ Keywords[k] = "iluminacao" THEN "Iluminacao" ELSE Keywords[k]
         IN (IF f[k] THEN <<w, SP>> ELSE <<>>) \o WordsOf(f, cap, k + 1)

FallbackQuestions ==
    {<<"ola", SP>> \o WordsOf(f, cap, 1) :
        f \in [1..Len(Keywords) -> BOOLEAN], cap \in BOOLEAN}

InitFallback ==
    /\ impl = "agent"
    /\ \E q \in FallbackQuestions : st = AfterRouter(impl, q)
    /\ pc = "sql_generator"
    /\ visited = <<"router">>
    /\ bq = [calls |-> 0, outcome |-> "none"]
    /\ gen = NoGen
    /\ frWriter = <<>>
    /\ cls = <<Reply("ok", <<"data_query">>)>>
    /\ genLog = <<>>
    /\ search = ResolverIdle
    /\ SideIdle
    /\ BuildIdle

FallbackGenStep == SqlGeneratorStep(GenInputs)

NextFallback == FallbackGenStep

SpecFallback == InitFallback /\ [][NextFallback]_vars

\* the lower-cased question holds the keyword
Mentions(w) == \E k \in 1..Len(st.question) : Lower(st.question)[k] = w

\* the validation of line 395 rejected the text taken from the reply
FallbackTaken == GeneratorReturned /\ IsInvalidSql(ExtractAgent(GenContent))

FallbackQueries ==
    {Strip(TemplateIluminacao), Strip(TemplateBuraco), Strip(TemplateFiscalizacao),
     GenericMessageQuery}

\* C32: when the generator of src/agent.py falls back, the stored query is
\* decided by the lower-cased question alone, with a fixed precedence: the
\* lighting template if it mentions "iluminacao" (also when it mentions
\* "buraco"); else the pothole template if it mentions "buraco"; else the
\* parking-enforcement template if it mentions both "fiscalizacao" and
\* "estacionamento"; else the generic message-only query.  The four queries are
\* distinct and exactly one of them is stored.
C32_FallbackPrecedence ==
    FallbackTaken
        => /\ Cardinality(FallbackQueries) = Len(Keywords)
           /\ st.sql_query \in FallbackQueries
           /\ Mentions("iluminacao") <=> st.sql_query = Strip(TemplateIluminacao)
           /\ (~Mentions("iluminacao") /\ Mentions("buraco"))
                  <=> st.sql_query = Strip(TemplateBuraco)
           /\ (~Mentions("iluminacao") /\ ~Mentions("buraco")
                  /\ Mentions("fiscalizacao") /\ Mentions("estacionamento"))
                  <=> st.sql_query = Strip(TemplateFiscalizacao)
           /\ (~Mentions("iluminacao") /\ ~Mentions("buraco")
                  /\ ~(Mentions("fiscalizacao") /\ Mentions("estacionamento")))
                  <=> st.sql_query = GenericMessageQuery

C32_Witness ==
    /\ FallbackTaken
    /\ st.question = <<"ola", SP, "buraco", SP, "Iluminacao", SP>>
    /\ st.sql_query = Strip(TemplateIluminacao)


-----------------------------------------------------------------------------
(* Several questions put to one agent: every DataAnalystAgent.run invokes  *)
(* the compiled graph on the thread "default" of one MemorySaver, so the   *)
(* state left by the run before is the checkpoint the new input is         *)
(* written over.  AgentState declares no reducer: a key of the input       *)
(* replaces the stored value, a key the input lacks keeps it.  The          *)
(* BigQuery client belongs to the agent and is not reset by run.           *)

MaxEarlierQueries == 1

\* the keys of initial_state
RunKeys == {"question", "intent", "sql_query", "data_result", "final_response",
            "error", "messages"}

RunInput(question) == [f \in RunKeys |-> InitialState(question)[f]]

\* a graph whose messages channel adds the input to the stored log
InvokeAppendLog(checkpoint, input) ==
    [f \in DOMAIN checkpoint |->
        IF f = "messages" THEN checkpoint[f] \o input[f]
        ELSE IF f \in DOMAIN input THEN input[f] ELSE checkpoint[f]]

\* self.graph.invoke(initial_state, config): the channel values the first
\* node is started with
Invoke(checkpoint, input) ==
    [f \in DOMAIN checkpoint |-> IF f \in DOMAIN input THEN input[f] ELSE checkpoint[f]]

RunAgain ==
    /\ pc \in {"END", "raised"}
    /\ bq.calls <= MaxEarlierQueries
    /\ \E q \in Questions : st' = Invoke(st, RunInput(q))
    /\ pc' = "router"
    /\ visited' = <<>>
    /\ gen' = NoGen
    /\ frWriter' = <<>>
    /\ cls' = <<>>
    /\ genLog' = <<>>
    /\ prompt' = NoPrompt
    /\ UNCHANGED <<impl, bq, buildVars, search, sideVars>>

InitRuns == InitPipeline /\ prompt = NoPrompt /\ BuildIdle

NextRuns ==
    \/ Run
    \/ RunAgain
    \/ RouterStep
    \/ PipelineGenStep
    \/ SqlExecutorStep
    \/ ResponseSynthesizerStep
    \/ ConversationalResponderStep

SpecRuns == InitRuns /\ [][NextRuns]_vars

\* every result the node can produce from state s
NodeResults(i, node, s) ==
    CASE node = "router" ->
            {IF i = "agent" THEN RouterAgent(s, r) ELSE RouterNodes(s, r) :
                r \in RouterReplies}
      [] node = "sql_generator" ->
            {IF i = "agent" THEN SqlGeneratorAgent(s, g) ELSE SqlGeneratorNodes(s, g) :
                g \in PipelineGenInputs}
      [] node = "sql_executor" ->
            {IF i = "agent" THEN SqlExecutorAgent(s, x) ELSE SqlExecutorNodes(s, x) :
                x \in ExecOutcomes(i)}
      [] node = "response_synthesizer" ->
            {IF i = "agent" THEN ResponseSynthesizerAgent(s, y)
             ELSE ResponseSynthesizerNodes(s, y) : y \in LlmReplies}
      [] node = "conversational_responder" ->
            {IF i = "agent" THEN ConversationalResponderAgent(s, y)
             ELSE ConversationalResponderNodes(s, y) : y \in LlmReplies}

\* what a result shows of the route and of the response
Visible(i, node, o) ==
    [raised |-> o.raised,
     next |-> IF o.raised THEN "raised" ELSE NextNode(i, node, o.st),
     run |-> [f \in RunKeys |-> o.st[f]]]

Ran(node) == \E k \in 1..Len(visited) : visited[k] = node

\* the state with every key that run does not set, and that no node of this run
\* has written yet, put back to what a first run finds there
Scrub(s) ==
    [s EXCEPT !.route = IF Ran("router") THEN @ ELSE "None",
              !.tool_context = IF Ran("sql_generator") THEN @ ELSE None]

\* a run starts: graph.invoke has written the input
RunStarts == pc' = "router" /\ pc \in {"idle", "END", "raised"}

StartsCleared ==
    RunStarts
        => /\ st'.intent = "None" /\ st'.sql_query = None /\ st'.data_result = None
           /\ st'.error = None /\ st'.final_response = <<>>
           /\ st'.messages = <<Msg("user", st'.question)>>

\* the node about to run produces the same routes and responses from the state
\* it is given as from that state without anything an earlier run left
NoInfluence ==
    pc \in {"router", "sql_generator", "sql_executor", "response_synthesizer",
            "conversational_responder"}
        => {Visible(impl, pc, o) : o \in NodeResults(impl, pc, st)}
             = {Visible(impl, pc, o) : o \in NodeResults(impl, pc, Scrub(st))}

\* the message log of a run begins with the question of that run
LogOfThisRun == pc # "idle" => st.messages[1] = Msg("user", st.question)

\* C33: each run starts from a state with intent, sql_query, data_result and
\* error cleared, final_response empty and a message log holding only the new
\* question, whatever earlier runs on the same agent and thread left behind; and
\* at every node of a later run the possible routes and responses are those of
\* a state in which nothing of an earlier run is left.
C33_RunsDoNotInterfere ==
    [](NoInfluence /\ LogOfThisRun) /\ [][StartsCleared]_vars

\* a later question starts after an earlier one whose query went to BigQuery
C33_Witness ==
    /\ pc = "router" /\ visited = <<>> /\ bq.calls = 1
    /\ st.error = None /\ st.sql_query = None /\ st.data_result = None
    /\ st.messages = <<Msg("user", st.question)>>


-----------------------------------------------------------------------------
(* The shape of one run of the graph                                       *)

\* the keys of the map handed to add_conditional_edges
EdgeKeys == {"data_query", "conversational"}

DataPath == <<"router", "sql_generator", "sql_executor", "response_synthesizer">>
ConversationalPath == <<"router", "conversational_responder">>

\* the router returned (it ran and did not raise)
RouterReturned == Len(visited) >= 1 /\ ~(Len(visited) = 1 /\ pc = "raised")

\* the node the graph runs after the nodes visited so far
Following(path) ==
    IF Len(visited) < Len(path) THEN path[Len(visited) + 1] ELSE "END"

InGraphOrder ==
    /\ ~RouterReturned => (visited = <<>> \/ visited = <<"router">>)
    /\ RouterReturned =>
          LET path == IF Classified = "data_query" THEN DataPath ELSE ConversationalPath
          IN /\ IsPrefix(visited, path)
             /\ pc \in {Following(path), "raised"}

WrittenOnce ==
    pc = "END" =>
        frWriter = IF Classified = "data_query" THEN <<"response_synthesizer">>
                   ELSE <<"conversational_responder">>

\* C34: once the router has returned, the classification is exactly
\* "data_query" or "conversational" and route_intent returns a key of the edge
\* map; the nodes run one at a time along the path of that classification, each
\* at most once; and in a completed run final_response has been written exactly
\* once, by response_synthesizer on the data path and by
\* conversational_responder on the conversational path.
C34_OnePathOneResponse ==
    /\ RouterReturned => /\ Classified \in {"data_query", "conversational"}
                         /\ route_intent(impl, st) \in EdgeKeys
    /\ InGraphOrder
    /\ WrittenOnce

C34_Witness ==
    /\ pc = "END" /\ visited = DataPath /\ frWriter = <<"response_synthesizer">>
    /\ st.final_response # <<>>


-----------------------------------------------------------------------------
(* DataAnalystAgent.__init__ from _ensure_chromadb_initialized on: the      *)
(* collections of the store are listed, a rebuild of all of them is        *)
(* started or not, the graph is built and questions are answered.          *)

required_collections ==
    {"tipo", "subtipo", "nome_unidade_organizacional", "id_unidade_organizacional_mae"}

\* what the store holds when the agent is constructed: all four collections,
\* all but one of them, or none
StoreContents ==
    {required_collections, {}} \cup {required_collections \ {c} : c \in required_collections}

\* a check that looks for the collection "tipo" only
missing_collectionsTipoOnly(b) == {"tipo"} \ b.existing

\* [col for col in required_collections if col not in existing_collections]
missing_collections(b) == {c \in required_collections : c \notin b.existing}

\* if missing_collections: ... / except Exception: self._initialize_embeddings()
ensure_chromadb(b) ==
    IF b.list = "throws" \/ missing_collections(b) # {}
    THEN [b EXCEPT !.stage = "embeddings", !.rebuild = "started"]
    ELSE [b EXCEPT !.stage = "chromadb"]

InitEnsure ==
    /\ impl = "agent"
    /\ \E e \in StoreContents, l \in {"ok", "throws"} :
          boot = [stage |-> "bigquery", openai |-> "set", google |-> "set", failed |-> FALSE,
                  existing |-> e, list |-> l, rebuild |-> "none"]
    /\ st = IdleState
    /\ pc = "idle"
    /\ visited = <<>>
    /\ bq = [calls |-> 0, outcome |-> "none"]
    /\ gen = NoGen
    /\ frWriter = <<>>
    /\ cls = <<>>
    /\ genLog = <<>>
    /\ search = ResolverIdle
    /\ prompt = NoPrompt /\ cols = ColsIdle /\ client = ClientIdle
    /\ BuildIdle

EnsureChecks ==
    /\ boot.stage = "bigquery"
    /\ boot' = ensure_chromadb(boot)
    /\ BootFrame

\* the import, CategoryEmbeddingsInitializer() or the call raises before any
\* column is begun: _initialize_embeddings prints and returns
InitializerRaises ==
    /\ boot.stage = "embeddings"
    /\ cols = ColsIdle /\ bpc = "idle"
    /\ boot' = [boot EXCEPT !.stage = "chromadb", !.rebuild = "failed"]
    /\ BootFrame

\* initialize_all_collections at work; the collection of a column is there
\* before its rebuild iff the store held it
EnsureRebuildStep ==
    /\ boot.stage = "embeddings"
    /\ NextAll
    /\ (cols' # cols /\ bpc' = "extract")
          => (prior0'.exists <=> collections_config(bImpl)[cols'.i] \in boot.existing)

\* initialize_all_collections returns; the initializer is dropped
InitializerReturns ==
    /\ boot.stage = "embeddings"
    /\ cols.over
    /\ boot' = [boot EXCEPT !.stage = "chromadb",
                            !.rebuild = IF \E k \in 1..Len(cols.log) : cols.log[k].outcome = "failed"
                                        THEN "failed" ELSE "returned"]
    /\ cols' = ColsIdle
    /\ values' = <<>>
    /\ store' = [exists |-> FALSE, entries |-> <<>>]
    /\ prior0' = store'
    /\ bpc' = "idle"
    /\ work' = <<>>
    /\ collected' = <<>>
    /\ assembled' = [texts |-> <<>>, embeddings |-> <<>>]
    /\ adds' = <<>>
    /\ UNCHANGED <<pipeVars, bImpl, cls, genLog, search, prompt, client>>

NextEnsure ==
    \/ EnsureChecks
    \/ InitializerRaises
    \/ EnsureRebuildStep
    \/ InitializerReturns
    \/ BuildGraph
    \/ BootRun
    \/ BootRouterStep
    \/ BootGenStep
    \/ BootExecStep
    \/ BootSynthStep
    \/ BootResponderStep

SpecEnsure == InitEnsure /\ [][NextEnsure]_vars

AllFound == boot.list = "ok" /\ required_collections \subseteq boot.existing

\* no rebuild has touched anything
NothingRebuilt ==
    /\ cols = ColsIdle /\ bpc = "idle"
    /\ store = prior0 /\ adds = <<>> /\ work = <<>>

\* C35: when the agent is constructed a rebuild of all collections is started
\* iff one of the four required collections is not in the store or listing the
\* store raises; when all four are there nothing is deleted or rebuilt; and a
\* rebuild that fails does not fail the construction: the graph is built next
\* and questions are then answered.
C35_RebuildIffMissing ==
    /\ boot.stage # "bigquery" => (boot.rebuild # "none" <=> ~AllFound)
    /\ AllFound => NothingRebuilt
    /\ ~boot.failed
    /\ boot.stage # "failed"
    /\ (boot.stage = "embeddings" /\ cols = ColsIdle) => ENABLED InitializerRaises
    /\ (boot.stage = "embeddings" /\ cols.over) => ENABLED InitializerReturns
    /\ boot.stage = "chromadb" => ENABLED BuildGraph
    /\ (boot.stage = "ready" /\ pc = "idle") => ENABLED BootRun
    /\ boot.stage # "ready" => (pc = "idle" /\ visited = <<>>)

C35_Witness ==
    /\ boot.rebuild = "failed" /\ boot.list = "ok"
    /\ boot.existing = required_collections \ {"subtipo"}
    /\ boot.stage = "ready" /\ pc = "END" /\ st.final_response # <<>>


-----------------------------------------------------------------------------
(* extract_sql_from_content (src/src/nodes/sql_generator.py) on every      *)
(* reply of up to MaxExtractLen tokens: sql_generator_node stores what the  *)
(* function returns.                                                       *)

MaxExtractLen == 4

ExtractTokens == {"SQL:", "sql:", "SELECT", "NOTE:", "REASONING:", "prosa", SP, NL}

ExtractContents == TextsOver(ExtractTokens, MaxExtractLen)

ExtractInputs == {GenInput("ok", "ok", <<>>, c, "none", <<>>) : c \in ExtractContents}

InitExtract ==
    /\ impl = "nodes"
    /\ st = AfterRouter(impl, <<"ola">>)
    /\ pc = "sql_generator"
    /\ visited = <<"router">>
    /\ bq = [calls |-> 0, outcome |-> "none"]
    /\ gen = NoGen
    /\ frWriter = <<>>
    /\ cls = <<Reply("ok", <<"data_query">>)>>
    /\ genLog = <<>>
    /\ search = ResolverIdle
    /\ SideIdle
    /\ BuildIdle

ExtractStep == SqlGeneratorStep(ExtractInputs)

NextExtract == ExtractStep

SpecExtract == InitExtract /\ [][NextExtract]_vars

\* the least number of a non-empty set of numbers
Least(S) == CHOOSE k \in S : \A j \in S : k <= j

MarkerLines(lines) == {k \in 1..Len(lines) : LineStartsWith(lines[k], {"SQL:"})}

StopLinesAfter(lines, m) ==
    {k \in (m + 1)..Len(lines) :
        LineStartsWith(lines[k], {"REASONING:", "EXPLANATION:", "NOTE:"})}

\* the text after the marker of line m, up to the first stop line after it
AfterMarker(lines, m) ==
    LET stops == StopLinesAfter(lines, m)
        e == IF stops = {} THEN Len(lines) + 1 ELSE Least(stops)
    IN JoinLines(<<Tail(LStrip(lines[m]))>> \o SubSeq(lines, m + 1, e - 1))

\* the text from the first SELECT up to the first stop word
FromSelect(content) ==
    LET part == DropFirst(content, Find(Upper(content), <<"SELECT">>) - 1)
        stops == {k \in 1..Len(part) : Upper(part)[k] \in {"REASONING:", "EXPLANATION:", "NOTE:"}}
    IN IF stops = {} THEN part ELSE SubSeq(part, 1, Least(stops) - 1)

\* the text before the marker of line m
BeforeMarker(lines, m) == JoinLines(SubSeq(lines, 1, m - 1))

\* C36: extract_sql_from_content returns None for empty content; with a line
\* that starts, trimmed and in any case, with "SQL:", the trimmed text after
\* that marker up to the first later line that starts with REASONING:,
\* EXPLANATION: or NOTE:, with none of the words written before the marker;
\* with no such line but a SELECT, the trimmed text from the first SELECT up to
\* the first stop word; otherwise the whole trimmed content.
C36_ExtractionByMarker ==
    GeneratorReturned =>
        LET content == GenContent
            lines == SplitLines(content)
            marked == MarkerLines(lines)
        IN IF content = <<>> THEN st.sql_query = None
           ELSE IF marked # {}
           THEN /\ st.sql_query = Strip(AfterMarker(lines, Least(marked)))
                /\ ("prosa" \in {BeforeMarker(lines, Least(marked))[k] :
                                     k \in 1..Len(BeforeMarker(lines, Least(marked)))}
                       /\ \A k \in 1..Len(AfterMarker(lines, Least(marked))) :
                              AfterMarker(lines, Least(marked))[k] # "prosa")
                      => \A k \in 1..Len(st.sql_query) : st.sql_query[k] # "prosa"
           ELSE IF Contains(Upper(content), <<"SELECT">>)
           THEN st.sql_query = Strip(FromSelect(content))
           ELSE st.sql_query = Strip(content)


-----------------------------------------------------------------------------
(* The sequential create_embeddings of src/initialize_embeddings.py, as     *)
(* initialize_collection calls it after create_embeddings_parallel raised:  *)
(* the collection has just been created, the main thread goes through the  *)
(* batches one after the other.  work[1] is that thread, work[1].result    *)
(* its all_embeddings, assembled.texts the texts dealt with so far and     *)
(* assembled.embeddings what initialize_collection gets back.              *)

MaxSeqTexts == 5
sequential_batch_size == 2      \* batch_size = 2000 in the source, scaled down
small_batch_size == 1           \* small_batch_size = 100 in the source, scaled down

ZeroVectors(texts) == [k \in 1..Len(texts) |-> ZeroVector]

\* the vectors chromadb makes itself from the documents when it is given none
DefaultVector(doc) == [kind |-> "default", of |-> doc, dim |-> 0]

InitSeq ==
    /\ bImpl = "agent"
    /\ \E n \in 1..MaxSeqTexts : values = [k \in 1..n |-> k]
    /\ store = [exists |-> TRUE, entries |-> <<>>]
    /\ prior0 = store
    /\ bpc = "sequential"
    /\ work = <<[Queued EXCEPT !.status = "running"]>>
    /\ collected = <<>>
    /\ assembled = [texts |-> <<>>, embeddings |-> <<>>]
    /\ adds = <<>>
    /\ PipelineIdle

SeqFrame == UNCHANGED <<pipeVars, auxVars, bImpl, values, prior0, collected>>

\* texts the loops have dealt with
Position == Len(assembled.texts)

\* the end of the batch that holds text number Position + 1
BatchEnd ==
    Min(((Position \div sequential_batch_size) + 1) * sequential_batch_size, Len(values))

\* one turn of the outer loop: the request for the batch returns or raises
SeqBatchCall ==
    /\ bpc = "sequential" /\ work[1].status = "running"
    /\ Position < Len(values)
    /\ LET batch == SubSeq(values, Position + 1, BatchEnd)
       IN \/ \E r \in ClientResults(batch) :
                /\ work' = [work EXCEPT ![1].calls = @ + 1, ![1].result = @ \o r]
                /\ assembled' = [assembled EXCEPT !.texts = @ \o batch]
          \/ IF Len(batch) > small_batch_size
             THEN /\ work' = [work EXCEPT ![1].calls = @ + 1, ![1].status = "smaller"]
                  /\ assembled' = assembled
             ELSE /\ work' = [work EXCEPT ![1].calls = @ + 1,
                                          ![1].result = @ \o ZeroVectors(batch)]
                  /\ assembled' = [assembled EXCEPT !.texts = @ \o batch]
    /\ UNCHANGED <<store, bpc, adds>>
    /\ SeqFrame

\* one turn of the inner loop over the batch that failed
SeqSmallCall ==
    /\ bpc = "sequential" /\ work[1].status = "smaller"
    /\ LET small_batch == SubSeq(values, Position + 1, Min(Position + small_batch_size, BatchEnd))
           last == Position + Len(small_batch) = BatchEnd
       IN /\ \E r \in ClientResults(small_batch) \cup {ZeroVectors(small_batch)} :
                work' = [work EXCEPT ![1].calls = @ + 1, ![1].result = @ \o r,
                                     ![1].status = IF last THEN "running" ELSE "smaller"]
          /\ assembled' = [assembled EXCEPT !.texts = @ \o small_batch]
    /\ UNCHANGED <<store, bpc, adds>>
    /\ SeqFrame

\* the outer loop is over and the body of the function ends: there is no return
\* statement, the caller gets None
SeqReturns ==
    /\ bpc = "sequential" /\ work[1].status = "running"
    /\ Position = Len(values)
    /\ work' = [work EXCEPT ![1].status = "returned"]
    /\ assembled' = [assembled EXCEPT !.embeddings = None]
    /\ UNCHANGED <<store, bpc, adds>>
    /\ SeqFrame

\* collection.add(embeddings=embeddings, documents=values, ids=ids) with what
\* came back: the store raises, or embeds the documents itself
SeqAdd ==
    /\ bpc = "sequential" /\ work[1].status = "returned"
    /\ assembled.embeddings = None
    /\ \/ /\ store' = [store EXCEPT !.entries =
                           NewEntries(values, [k \in 1..Len(values) |->
                                                  DefaultVector(values[k])])]
          /\ adds' = Append(adds, "main")
          /\ bpc' = "done"
       \/ bpc' = "aborted" /\ UNCHANGED <<store, adds>>
    /\ UNCHANGED <<work, assembled>>
    /\ SeqFrame

NextSeq ==
    \/ SeqBatchCall
    \/ SeqSmallCall
    \/ SeqReturns
    \/ SeqAdd

SpecSeq == InitSeq /\ [][NextSeq]_vars

SeqReturned == work # <<>> /\ work[1].status = "returned"

\* C37: the sequential create_embeddings gives back one vector per text, in
\* the order of the texts, the vector of the text or, where the batch of the
\* text failed, the zero vector of dimension 3072; the insert that follows is
\* given as many vectors as there are values and stores them.
C37_SequentialReturnsOnePerText ==
    SeqReturned
        => /\ assembled.embeddings # None
           /\ Len(assembled.embeddings) = Len(values)
           /\ \A k \in 1..Len(values) :
                  assembled.embeddings[k] \in {Embedding(values[k]), ZeroVector}
           /\ bpc = "done"
                 => \A k \in 1..Len(values) : store.entries[k].vec = assembled.embeddings[k]

=============================================================================
